---------------------------- MODULE Spec2Model ----------------------------
(***************************************************************************)
(* Model of the Claude Code plugin dashboard: the aggregation of the JSON  *)
(* documents into plugin records (services/pluginService.ts,               *)
(* services/settingsService.ts, services/fileService.ts) and the           *)
(* interactive session (app.tsx: appReducer, the useInput handler,         *)
(* handleInstall / handleUninstall).                                       *)
(*                                                                         *)
(* Conventions.  A JavaScript string is a sequence of one-character        *)
(* strings (<<"s","u">> is "su"), so that concatenation, toLowerCase and   *)
(* includes are computed.  An optional value (undefined / absent field)    *)
(* is a sequence of length 0 or 1: None, Some(x).  A JSON document on disk *)
(* is a record [status, value] with status "missing", "malformed" or "ok". *)
(***************************************************************************)
EXTENDS Integers, Sequences, FiniteSets, TLC

VARIABLES
  disk,          \* the documents under ~/.claude (PATHS)
  state,         \* AppState held by useReducer(appReducer, initialState)
  isSearchMode,  \* useState(false) of App
  phase,         \* "init" before the mount effect, "running", "exited" after exit()
  inflight,      \* the subprocesses spawned by executePluginAction and not yet closed
  gated,         \* TRUE iff the last event was a key dropped by the operation gate
  aggResult,     \* what the last stand-alone call of a service returned
  aggPrevious    \* what the stand-alone call before it returned (or, for a
                 \* call that takes arguments, the arguments it was given)

vars == <<disk, state, isSearchMode, phase, inflight, gated, aggResult,
          aggPrevious>>

----------------------------------------------------------------------------
(* Optional values and strings *)

None == << >>
Some(x) == <<x>>
IsSome(o) == o # << >>
Get(o) == o[1]

\* JavaScript truthiness of a string
TruthyStr(s) == s # << >>

\* o || d for an optional string o (undefined and "" are both falsy)
OrStr(o, d) == IF IsSome(o) /\ TruthyStr(Get(o)) THEN Get(o) ELSE d

\* String.prototype.toLowerCase on the model's alphabet
LowerChar(c) ==
  CASE c = "S" -> "s"
    [] c = "Y" -> "y"
    [] c = "N" -> "n"
    [] c = "U" -> "u"
    [] OTHER -> c

toLowerCase(s) == [i \in 1..Len(s) |-> LowerChar(s[i])]

\* String.prototype.includes
includes(s, q) ==
  \E i \in 0..(Len(s) - Len(q)) : \A j \in 1..Len(q) : s[i + j] = q[j]

\* Array.prototype.sort (stable since ES2019) under a comparator that is a
\* total preorder: element i lands behind every element that compares lower
\* and every equal element that precedes it in the input.
StableSort(s, cmp) ==
  LET rank(i) == Cardinality({j \in DOMAIN s :
                     \/ cmp[j, i] < 0
                     \/ cmp[j, i] = 0 /\ j < i})
  IN  [k \in 1..Len(s) |-> s[CHOOSE i \in DOMAIN s : rank(i) = k - 1]]

----------------------------------------------------------------------------
(* utils/paths.ts *)

\* PATHS and getMarketplaceJsonPath: the logical names of the documents
PATHS ==
  [settings |-> <<"settings.json">>,
   installedPlugins |-> <<"installed_plugins.json">>,
   knownMarketplaces |-> <<"known_marketplaces.json">>,
   installCountsCache |-> <<"install-counts-cache.json">>,
   marketplacesDir |-> <<"marketplaces">>]

getMarketplaceJsonPath(marketplaceId) == <<"marketplace.json", marketplaceId>>

----------------------------------------------------------------------------
(* services/fileService.ts *)

\* Variant: a file that is not valid JSON is read as a missing one
readJsonFileSwallowsErrors(doc, filePath) ==
  IF doc.status = "ok"
  THEN [kind |-> "value", value |-> doc.value]
  ELSE [kind |-> "null"]

\* Variant: the existence test is dropped, so a missing file throws too
readJsonFileNoExistsCheck(doc, filePath) ==
  IF doc.status = "ok"
  THEN [kind |-> "value", value |-> doc.value]
  ELSE [kind |-> "throw", error |-> <<"Invalid JSON in", filePath>>]

\* readJsonFile: null for a missing file, the parsed value for a well-formed
\* one, and an Error naming the path for a file that is not valid JSON.
readJsonFile(doc, filePath) ==
  IF doc.status = "missing" THEN [kind |-> "null"]
  ELSE IF doc.status = "malformed"
  THEN [kind |-> "throw", error |-> <<"Invalid JSON in", filePath>>]
  ELSE [kind |-> "value", value |-> doc.value]

\* directoryExists(PATHS.marketplacesDir)
directoryExists(d) == d.marketplacesDir.exists

\* listDirectories(PATHS.marketplacesDir): the sub-directory names, in
\* readdir order
listDirectories(d) ==
  IF directoryExists(d) THEN d.marketplacesDir.names ELSE << >>

----------------------------------------------------------------------------
(* services/settingsService.ts *)

\* readSettings: throws when settings.json is missing or malformed
readSettings(d) ==
  LET r == readJsonFile(d.settings, PATHS.settings)
  IN  IF r.kind = "null"
      THEN [kind |-> "throw",
            error |-> <<"settings.json not found at", PATHS.settings>>]
      ELSE r

\* settings.enabledPlugins ?? {}, as a function from the ids present to
\* booleans
EmptyMap == [x \in {} |-> FALSE]

getEnabledPlugins(d) ==
  LET r == readSettings(d)
  IN  IF r.kind = "throw" THEN r
      ELSE [kind |-> "value",
            value |-> IF IsSome(r.value.enabledPlugins)
                      THEN Get(r.value.enabledPlugins) ELSE EmptyMap]

\* enabled[pluginId] ?? false
EnabledOrFalse(enabled, pluginId) ==
  IF pluginId \in DOMAIN enabled THEN enabled[pluginId] ELSE FALSE

----------------------------------------------------------------------------
(* services/pluginService.ts: loadAllPlugins *)

\* `${plugin.name}@${marketplace}`
PluginId(name, marketplace) == name \o <<"@">> \o marketplace

\* Variant: the last listed entry of every id that has one
installedMapLastEntry(installed) ==
  IF installed.kind = "value" /\ IsSome(installed.value.plugins)
  THEN LET reg == Get(installed.value.plugins)
       IN  [id \in {k \in DOMAIN reg : reg[k] # << >>} |-> reg[id][Len(reg[id])]]
  ELSE EmptyMap

\* Variant: only plugins with exactly one installation entry are mapped
installedMapSingleEntry(installed) ==
  IF installed.kind = "value" /\ IsSome(installed.value.plugins)
  THEN LET reg == Get(installed.value.plugins)
       IN  [id \in {k \in DOMAIN reg : Len(reg[k]) = 1} |-> reg[id][1]]
  ELSE EmptyMap

\* installedMap: the first listed entry of every id that has one
installedMap(installed) ==
  IF installed.kind = "value" /\ IsSome(installed.value.plugins)
  THEN LET reg == Get(installed.value.plugins)
       IN  [id \in {k \in DOMAIN reg : reg[k] # << >>} |-> reg[id][1]]
  ELSE EmptyMap

\* countsMap: a later entry of the cache overrides an earlier one
countsMap(counts) ==
  IF counts.kind = "value" /\ IsSome(counts.value.counts)
  THEN LET cs == Get(counts.value.counts)
           last(id) == CHOOSE i \in DOMAIN cs :
                         /\ cs[i].plugin = id
                         /\ \A j \in DOMAIN cs : cs[j].plugin = id => j <= i
       IN  [id \in {cs[i].plugin : i \in DOMAIN cs} |-> cs[last(id)].unique_installs]
  ELSE EmptyMap

\* Variant: a plugin counts as installed only if it is also enabled
PluginRecordInstalledIfEnabled(plugin, marketplace, instMap, cntMap, enabledPlugins) ==
  LET pluginId == PluginId(plugin.name, marketplace)
      has == pluginId \in DOMAIN instMap
      count == IF pluginId \in DOMAIN cntMap THEN cntMap[pluginId] ELSE 0
  IN  [id |-> pluginId,
       name |-> plugin.name,
       marketplace |-> marketplace,
       description |-> OrStr(plugin.description, << >>),
       version |-> IF has /\ TruthyStr(instMap[pluginId].version)
                   THEN instMap[pluginId].version
                   ELSE OrStr(plugin.version, <<"unknown">>),
       installCount |-> count,
       isInstalled |-> has /\ EnabledOrFalse(enabledPlugins, pluginId),
       isEnabled |-> EnabledOrFalse(enabledPlugins, pluginId),
       installedAt |-> IF has THEN Some(instMap[pluginId].installedAt) ELSE None,
       lastUpdated |-> IF has THEN Some(instMap[pluginId].lastUpdated) ELSE None,
       category |-> plugin.category,
       tags |-> IF IsSome(plugin.tags) THEN plugin.tags ELSE plugin.keywords,
       isLocal |-> IF has THEN Some(instMap[pluginId].isLocal) ELSE None,
       gitCommitSha |-> IF has THEN Some(instMap[pluginId].gitCommitSha) ELSE None]

\* Variant: a plugin counts as enabled only if it is installed
PluginRecordEnabledIfInstalled(plugin, marketplace, instMap, cntMap, enabledPlugins) ==
  LET pluginId == PluginId(plugin.name, marketplace)
      has == pluginId \in DOMAIN instMap
      count == IF pluginId \in DOMAIN cntMap THEN cntMap[pluginId] ELSE 0
  IN  [id |-> pluginId,
       name |-> plugin.name,
       marketplace |-> marketplace,
       description |-> OrStr(plugin.description, << >>),
       version |-> IF has /\ TruthyStr(instMap[pluginId].version)
                   THEN instMap[pluginId].version
                   ELSE OrStr(plugin.version, <<"unknown">>),
       installCount |-> count,
       isInstalled |-> has,
       isEnabled |-> has /\ EnabledOrFalse(enabledPlugins, pluginId),
       installedAt |-> IF has THEN Some(instMap[pluginId].installedAt) ELSE None,
       lastUpdated |-> IF has THEN Some(instMap[pluginId].lastUpdated) ELSE None,
       category |-> plugin.category,
       tags |-> IF IsSome(plugin.tags) THEN plugin.tags ELSE plugin.keywords,
       isLocal |-> IF has THEN Some(instMap[pluginId].isLocal) ELSE None,
       gitCommitSha |-> IF has THEN Some(instMap[pluginId].gitCommitSha) ELSE None]

\* The record pushed for one catalog entry (lines 66-86)
PluginRecord(plugin, marketplace, instMap, cntMap, enabledPlugins) ==
  LET pluginId == PluginId(plugin.name, marketplace)
      has == pluginId \in DOMAIN instMap
      count == IF pluginId \in DOMAIN cntMap THEN cntMap[pluginId] ELSE 0
  IN  [id |-> pluginId,
       name |-> plugin.name,
       marketplace |-> marketplace,
       description |-> OrStr(plugin.description, << >>),
       version |-> IF has /\ TruthyStr(instMap[pluginId].version)
                   THEN instMap[pluginId].version
                   ELSE OrStr(plugin.version, <<"unknown">>),
       installCount |-> count,
       isInstalled |-> has,
       isEnabled |-> EnabledOrFalse(enabledPlugins, pluginId),
       installedAt |-> IF has THEN Some(instMap[pluginId].installedAt) ELSE None,
       lastUpdated |-> IF has THEN Some(instMap[pluginId].lastUpdated) ELSE None,
       category |-> plugin.category,
       tags |-> IF IsSome(plugin.tags) THEN plugin.tags ELSE plugin.keywords,
       isLocal |-> IF has THEN Some(instMap[pluginId].isLocal) ELSE None,
       gitCommitSha |-> IF has THEN Some(instMap[pluginId].gitCommitSha) ELSE None]

\* Variant: every id of the count cache that ends in "@<marketplace>" and is
\* not listed by the catalog gets a record of its own
MarketplaceRecordsWithCounted(manifest, marketplace, instMap, cntMap, enabledPlugins) ==
  LET ps == IF manifest.kind = "value" /\ IsSome(manifest.value.plugins)
            THEN Get(manifest.value.plugins) ELSE << >>
      listed == {PluginId(ps[i].name, marketplace) : i \in DOMAIN ps}
      nameOf(id) == SubSeq(id, 1, Len(id) - Len(marketplace) - 1)
      counted == {id \in DOMAIN cntMap :
                    /\ Len(id) > Len(marketplace) + 1
                    /\ PluginId(nameOf(id), marketplace) = id
                    /\ id \notin listed}
      order == CHOOSE f \in [1..Cardinality(counted) -> counted] :
                 \A a, b \in 1..Cardinality(counted) : f[a] = f[b] => a = b
  IN  [i \in 1..Len(ps) |->
         PluginRecord(ps[i], marketplace, instMap, cntMap, enabledPlugins)]
      \o [i \in 1..Cardinality(counted) |->
            PluginRecord([name |-> nameOf(order[i]), description |-> None,
                          version |-> None, category |-> None, tags |-> None,
                          keywords |-> None],
                         marketplace, instMap, cntMap, enabledPlugins)]

\* The records one marketplace directory contributes (lines 61-88): none when
\* the catalog is missing or has no plugins list
MarketplaceRecords(manifest, marketplace, instMap, cntMap, enabledPlugins) ==
  IF manifest.kind = "value" /\ IsSome(manifest.value.plugins)
  THEN LET ps == Get(manifest.value.plugins)
       IN  [i \in 1..Len(ps) |->
              PluginRecord(ps[i], marketplace, instMap, cntMap, enabledPlugins)]
  ELSE << >>

\* The scan of the marketplace directories (lines 57-90), left to right; a
\* readJsonFile that throws ends the scan with that error
RECURSIVE ScanMarketplaces(_, _, _, _, _, _)
ScanMarketplaces(d, names, instMap, cntMap, enabledPlugins, acc) ==
  IF names = << >> THEN [kind |-> "value", value |-> acc]
  ELSE LET marketplace == Head(names)
           manifest == readJsonFile(d.catalog[marketplace],
                                    getMarketplaceJsonPath(marketplace))
       IN  IF manifest.kind = "throw" THEN manifest
           ELSE ScanMarketplaces(d, Tail(names), instMap, cntMap, enabledPlugins,
                  acc \o MarketplaceRecords(manifest, marketplace, instMap,
                                            cntMap, enabledPlugins))

\* Variant: ascending by installCount
ByInstallsAsc(a, b) == a.installCount - b.installCount

\* b.installCount - a.installCount
ByInstallsDesc(a, b) == b.installCount - a.installCount

\* loadAllPlugins(): [kind |-> "value", value |-> the sorted records] or
\* [kind |-> "throw", error |-> ...]
loadAllPlugins(d) ==
  LET installed == readJsonFile(d.installedPlugins, PATHS.installedPlugins)
      counts == readJsonFile(d.installCountsCache, PATHS.installCountsCache)
      enabledPlugins == getEnabledPlugins(d)
  IN  IF installed.kind = "throw" THEN installed
      ELSE IF counts.kind = "throw" THEN counts
      ELSE IF enabledPlugins.kind = "throw" THEN enabledPlugins
      ELSE LET scanned == ScanMarketplaces(d, listDirectories(d),
                            installedMap(installed), countsMap(counts),
                            enabledPlugins.value, << >>)
           IN  IF scanned.kind = "throw" THEN scanned
               ELSE [kind |-> "value",
                     value |-> StableSort(scanned.value,
                                [j, i \in DOMAIN scanned.value |->
                                   ByInstallsDesc(scanned.value[j],
                                                  scanned.value[i])])]

\* Variant: the marketplaces are ordered by plugin count ascending
ByPluginCountAsc(a, b) == a.pluginCount - b.pluginCount

\* loadMarketplaces(): one record per entry of known_marketplaces.json, by
\* pluginCount descending
ByPluginCountDesc(a, b) == b.pluginCount - a.pluginCount

RECURSIVE ScanKnown(_, _, _)
ScanKnown(d, ids, acc) ==
  IF ids = << >> THEN [kind |-> "value", value |-> acc]
  ELSE LET id == Head(ids)
           manifest == readJsonFile(d.catalog[id], getMarketplaceJsonPath(id))
           plugins == IF manifest.kind = "value" THEN manifest.value.plugins ELSE None
       IN  IF manifest.kind = "throw" THEN manifest
           ELSE ScanKnown(d, Tail(ids),
                  Append(acc, [id |-> id,
                               pluginCount |-> IF IsSome(plugins)
                                               THEN Len(Get(plugins)) ELSE 0]))

loadMarketplaces(d) ==
  LET known == readJsonFile(d.knownMarketplaces, PATHS.knownMarketplaces)
  IN  IF known.kind = "throw" THEN known
      ELSE IF known.kind = "null" THEN [kind |-> "value", value |-> << >>]
      ELSE LET scanned == ScanKnown(d, known.value, << >>)
           IN  IF scanned.kind = "throw" THEN scanned
               ELSE [kind |-> "value",
                     value |-> StableSort(scanned.value,
                                [j, i \in DOMAIN scanned.value |->
                                   ByPluginCountDesc(scanned.value[j],
                                                     scanned.value[i])])]

----------------------------------------------------------------------------
(* services/pluginService.ts: the query layer *)

\* field?.toLowerCase().includes(lowerQuery) for an optional string
OptIncludes(o, lowerQuery) ==
  IsSome(o) /\ includes(toLowerCase(Get(o)), lowerQuery)

\* Variant: the fields are compared as they are written, without folding
\* their case
searchPluginsCaseSensitive(query, plugins) ==
  LET lowerQuery == toLowerCase(query)
      matches(p) ==
        \/ includes(p.name, lowerQuery)
        \/ includes(p.description, lowerQuery)
        \/ includes(p.marketplace, lowerQuery)
        \/ IsSome(p.category) /\ includes(Get(p.category), lowerQuery)
        \/ /\ IsSome(p.tags)
           /\ \E i \in DOMAIN Get(p.tags) : includes(Get(p.tags)[i], lowerQuery)
  IN  SelectSeq(plugins, matches)

\* searchPlugins(query, plugins)
searchPlugins(query, plugins) ==
  LET lowerQuery == toLowerCase(query)
      matches(p) ==
        \/ includes(toLowerCase(p.name), lowerQuery)
        \/ includes(toLowerCase(p.description), lowerQuery)
        \/ includes(toLowerCase(p.marketplace), lowerQuery)
        \/ OptIncludes(p.category, lowerQuery)
        \/ /\ IsSome(p.tags)
           /\ \E i \in DOMAIN Get(p.tags) :
                includes(toLowerCase(Get(p.tags)[i]), lowerQuery)
  IN  SelectSeq(plugins, matches)

\* The collation order of the characters that occur in names; upper and lower
\* case share a primary weight, lower case sorts first on a tie
Collation == <<" ", "/", "@", "1", "2", "i", "m", "n", "q", "s", "u", "y">>

PrimaryWeight(c) == CHOOSE i \in DOMAIN Collation : Collation[i] = LowerChar(c)

CaseWeight(c) == IF LowerChar(c) = c THEN 0 ELSE 1

\* Lexicographic comparison of two strings under a character weight
RECURSIVE LexCompare(_, _, _)
LexCompare(a, b, byCase) ==
  IF a = << >> /\ b = << >> THEN 0
  ELSE IF a = << >> THEN -1
  ELSE IF b = << >> THEN 1
  ELSE LET x == IF byCase THEN CaseWeight(Head(a)) ELSE PrimaryWeight(Head(a))
           y == IF byCase THEN CaseWeight(Head(b)) ELSE PrimaryWeight(Head(b))
       IN  IF x < y THEN -1
           ELSE IF x > y THEN 1
           ELSE LexCompare(Tail(a), Tail(b), byCase)

\* String.prototype.localeCompare
localeCompare(a, b) ==
  LET primary == LexCompare(a, b, FALSE)
  IN  IF primary # 0 THEN primary ELSE LexCompare(a, b, TRUE)

\* new Date(installedAt).getTime(), in days since the epoch (a scaling that
\* keeps the sign of every difference and fits the checker's integers)
DateGetTime(stamp) ==
  CASE stamp = "2024-01-01T00:00:00Z" -> 19723
    [] stamp = "2024-03-01T00:00:00Z" -> 19783
    [] stamp = "2024-06-01T00:00:00Z" -> 19875

\* The comparator of sortPlugins (lines 200-218)
SortComparison(a, b, sortBy, order) ==
  LET dateA == IF IsSome(a.installedAt) THEN DateGetTime(Get(a.installedAt)) ELSE 0
      dateB == IF IsSome(b.installedAt) THEN DateGetTime(Get(b.installedAt)) ELSE 0
      comparison ==
        CASE sortBy = "installs" -> a.installCount - b.installCount
          [] sortBy = "name" -> localeCompare(a.name, b.name)
          [] sortBy = "date" -> dateA - dateB
  IN  IF order = "asc" THEN comparison ELSE -comparison

\* Variant: a descending sort is the ascending sort reversed
sortPluginsReversed(plugins, sortBy, order) ==
  LET cmp == [j, i \in DOMAIN plugins |->
                SortComparison(plugins[j], plugins[i], sortBy, "asc")]
      ascending == StableSort(plugins, cmp)
  IN  IF order = "asc" THEN ascending
      ELSE [k \in 1..Len(plugins) |-> ascending[Len(plugins) + 1 - k]]

\* const sorted = [...plugins] (line 198): the sort works on a copy, so the
\* caller's array is after the call what it was before it
PluginsAfterSort(plugins, sortBy, order) == plugins

\* sortPlugins(plugins, sortBy, order)
sortPlugins(plugins, sortBy, order) ==
  LET cmp == [j, i \in DOMAIN plugins |->
                SortComparison(plugins[j], plugins[i], sortBy, order)]
  IN  StableSort(plugins, cmp)

----------------------------------------------------------------------------
(* components/TabBar.tsx *)

TABS == <<"discover", "installed", "marketplaces", "errors">>

\* getNextTab(currentTab, direction)
getNextTab(currentTab, direction) ==
  LET currentIndex == (CHOOSE i \in DOMAIN TABS : TABS[i] = currentTab) - 1
      tabCount == Len(TABS)
      newIndex == IF direction = "next"
                  THEN (currentIndex + 1) % tabCount
                  ELSE (currentIndex - 1 + tabCount) % tabCount
  IN  TABS[newIndex + 1]

----------------------------------------------------------------------------
(* app.tsx: state and reducer *)

initialState ==
  [activeTab |-> "discover",
   plugins |-> << >>,
   marketplaces |-> << >>,
   errors |-> << >>,
   selectedIndex |-> 0,
   searchQuery |-> << >>,
   sortBy |-> "installs",
   sortOrder |-> "desc",
   loading |-> TRUE,
   error |-> None,
   message |-> None,
   operation |-> "idle",
   operationPluginId |-> None,
   confirmUninstall |-> FALSE]

\* getFilteredPlugins(state)
getFilteredPlugins(st) ==
  LET plugins == IF TruthyStr(st.searchQuery)
                 THEN searchPlugins(st.searchQuery, st.plugins)
                 ELSE st.plugins
  IN  sortPlugins(plugins, st.sortBy, st.sortOrder)

\* state.plugins.filter((p) => p.isInstalled)
InstalledOf(plugins) ==
  LET isInstalled(p) == p.isInstalled
  IN  SelectSeq(plugins, isInstalled)

\* getItemsForTab(state)
getItemsForTab(st) ==
  CASE st.activeTab = "discover" -> getFilteredPlugins(st)
    [] st.activeTab = "installed" -> InstalledOf(st.plugins)
    [] st.activeTab = "marketplaces" -> st.marketplaces
    [] st.activeTab = "errors" -> st.errors

Max(a, b) == IF a >= b THEN a ELSE b
Min(a, b) == IF a <= b THEN a ELSE b

\* Variant: the tab is switched and the query is kept
SwitchTabKeepsQuery(st, direction) ==
  [st EXCEPT !.activeTab = getNextTab(st.activeTab, direction),
             !.selectedIndex = 0,
             !.message = None]

\* case 'NEXT_TAB' / 'PREV_TAB'
SwitchTab(st, direction) ==
  [st EXCEPT !.activeTab = getNextTab(st.activeTab, direction),
             !.selectedIndex = 0,
             !.searchQuery = << >>,
             !.message = None]

\* case 'SET_PLUGINS'
SetPlugins(st, payload) ==
  [st EXCEPT !.plugins = payload, !.loading = FALSE]

\* Variant: moving down is not clamped to the last index
MoveSelectionUnclamped(st, payload) ==
  LET items == getItemsForTab(st)
      newIndex == IF payload = "up"
                  THEN Max(0, st.selectedIndex - 1)
                  ELSE st.selectedIndex + 1
  IN  IF Len(items) = 0 THEN st
      ELSE [st EXCEPT !.selectedIndex = newIndex, !.message = None]

\* case 'MOVE_SELECTION'
MoveSelection(st, payload) ==
  LET items == getItemsForTab(st)
      maxIndex == Max(0, Len(items) - 1)
      newIndex == IF payload = "up"
                  THEN Max(0, st.selectedIndex - 1)
                  ELSE Min(maxIndex, st.selectedIndex + 1)
  IN  IF Len(items) = 0 THEN st
      ELSE [st EXCEPT !.selectedIndex = newIndex, !.message = None]

\* Variant: the query is set and the selection is kept
SetSearchQueryKeepsSelection(st, payload) ==
  [st EXCEPT !.searchQuery = payload]

\* case 'SET_SEARCH_QUERY'
SetSearchQuery(st, payload) ==
  [st EXCEPT !.searchQuery = payload, !.selectedIndex = 0]

\* case 'SET_SORT'
SetSort(st, payload) ==
  [st EXCEPT !.sortBy = payload.by,
             !.sortOrder = payload.order,
             !.selectedIndex = 0]

\* Variant: the patch marks the plugin enabled instead of flipping the flag
TogglePluginEnabledSetsTrue(st, pluginId) ==
  [st EXCEPT !.plugins =
     [i \in 1..Len(st.plugins) |->
        IF st.plugins[i].id = pluginId
        THEN [st.plugins[i] EXCEPT !.isEnabled = TRUE]
        ELSE st.plugins[i]]]

\* case 'TOGGLE_PLUGIN_ENABLED'
TogglePluginEnabled(st, pluginId) ==
  [st EXCEPT !.plugins =
     [i \in 1..Len(st.plugins) |->
        IF st.plugins[i].id = pluginId
        THEN [st.plugins[i] EXCEPT !.isEnabled = ~st.plugins[i].isEnabled]
        ELSE st.plugins[i]]]

\* Variant: the operation tag is not set, only the progress message
StartOperationMessageOnly(st, payload) ==
  [st EXCEPT !.operationPluginId = Some(payload.pluginId),
             !.message = IF payload.operation = "installing"
                         THEN Some(<<"Installing", payload.pluginId>>)
                         ELSE Some(<<"Uninstalling", payload.pluginId>>)]

\* case 'START_OPERATION'
StartOperation(st, payload) ==
  [st EXCEPT !.operation = payload.operation,
             !.operationPluginId = Some(payload.pluginId),
             !.message = IF payload.operation = "installing"
                         THEN Some(<<"Installing", payload.pluginId>>)
                         ELSE Some(<<"Uninstalling", payload.pluginId>>)]

\* case 'END_OPERATION'
EndOperation(st) ==
  [st EXCEPT !.operation = "idle", !.operationPluginId = None]

\* case 'SHOW_CONFIRM_UNINSTALL'
ShowConfirmUninstall(st, payload) ==
  [st EXCEPT !.confirmUninstall = TRUE, !.operationPluginId = Some(payload)]

\* Variant: closing the dialog keeps the stored plugin id
HideConfirmUninstallKeepsId(st) ==
  [st EXCEPT !.confirmUninstall = FALSE]

\* case 'HIDE_CONFIRM_UNINSTALL'
HideConfirmUninstall(st) ==
  [st EXCEPT !.confirmUninstall = FALSE, !.operationPluginId = None]

\* appReducer(state, action), for the action types the application dispatches
appReducer(st, action) ==
  CASE action.type = "NEXT_TAB" -> SwitchTab(st, "next")
    [] action.type = "PREV_TAB" -> SwitchTab(st, "prev")
    [] action.type = "SET_PLUGINS" -> SetPlugins(st, action.payload)
    [] action.type = "SET_MARKETPLACES" -> [st EXCEPT !.marketplaces = action.payload]
    [] action.type = "MOVE_SELECTION" -> MoveSelection(st, action.payload)
    [] action.type = "SET_SEARCH_QUERY" -> SetSearchQuery(st, action.payload)
    [] action.type = "SET_SORT" -> SetSort(st, action.payload)
    [] action.type = "TOGGLE_PLUGIN_ENABLED" -> TogglePluginEnabled(st, action.payload)
    [] action.type = "SET_ERROR" ->
         [st EXCEPT !.error = action.payload, !.loading = FALSE]
    [] action.type = "SET_MESSAGE" -> [st EXCEPT !.message = action.payload]
    [] action.type = "START_OPERATION" -> StartOperation(st, action.payload)
    [] action.type = "END_OPERATION" -> EndOperation(st)
    [] action.type = "SHOW_CONFIRM_UNINSTALL" -> ShowConfirmUninstall(st, action.payload)
    [] action.type = "HIDE_CONFIRM_UNINSTALL" -> HideConfirmUninstall(st)
    [] OTHER -> st

\* dispatch(action) on the session w
dispatch(w, action) == [w EXCEPT !.state = appReducer(w.state, action)]

Act(type) == [type |-> type]
ActP(type, payload) == [type |-> type, payload |-> payload]

----------------------------------------------------------------------------
(* services/fileService.ts and services/settingsService.ts: the write side *)

\* writeJsonFile(PATHS.settings, data): the temporary file is written and
\* renamed over the document, or the write fails and the document is kept
writeJsonFile(d, data) ==
  IF d.readOnly
  THEN [kind |-> "throw", error |-> <<"Failed to write", PATHS.settings>>, disk |-> d]
  ELSE [kind |-> "value",
        disk |-> [d EXCEPT !.settings = [status |-> "ok", value |-> data]]]

\* Variant: a fresh settings document holding the one entry is written
setPluginEnabledFreshDocument(d, pluginId, enabled) ==
  LET r == readSettings(d)
  IN  IF r.kind = "throw" THEN [kind |-> "throw", error |-> r.error, disk |-> d]
      ELSE writeJsonFile(d, [enabledPlugins |-> Some((pluginId :> enabled))])

\* setPluginEnabled(pluginId, enabled)
setPluginEnabled(d, pluginId, enabled) ==
  LET r == readSettings(d)
  IN  IF r.kind = "throw" THEN [kind |-> "throw", error |-> r.error, disk |-> d]
      ELSE LET old == IF IsSome(r.value.enabledPlugins)
                      THEN Get(r.value.enabledPlugins) ELSE EmptyMap
               new == [id \in DOMAIN old \cup {pluginId} |->
                         IF id = pluginId THEN enabled ELSE old[id]]
           IN  writeJsonFile(d, [r.value EXCEPT !.enabledPlugins = Some(new)])

\* Variant: the plugin is enabled whatever its current state
togglePluginAlwaysEnables(d, pluginId) ==
  LET written == setPluginEnabled(d, pluginId, TRUE)
  IN  IF written.kind = "throw" THEN written
      ELSE [kind |-> "value", value |-> TRUE, disk |-> written.disk]

\* togglePlugin(pluginId): the new enabled state, and the disk after the write
togglePlugin(d, pluginId) ==
  LET enabled == getEnabledPlugins(d)
  IN  IF enabled.kind = "throw"
      THEN [kind |-> "throw", error |-> enabled.error, disk |-> d]
      ELSE LET currentState == EnabledOrFalse(enabled.value, pluginId)
               written == setPluginEnabled(d, pluginId, ~currentState)
           IN  IF written.kind = "throw" THEN written
               ELSE [kind |-> "value", value |-> ~currentState, disk |-> written.disk]

----------------------------------------------------------------------------
(* services/pluginActionsService.ts *)

\* The ways the spawned `claude plugin <action> <id>` can end: the process
\* closes with an exit code, or it cannot be launched
Outcomes ==
  {[event |-> "close", code |-> 0],
   [event |-> "close", code |-> 1],
   [event |-> "error"]}

\* The value executePluginAction resolves with (lines 59-80)
ActionResult(action, pluginId, outcome) ==
  IF outcome.event = "close" /\ outcome.code = 0
  THEN [success |-> TRUE,
        message |-> <<IF action = "install" THEN "Installed" ELSE "Uninstalled",
                      pluginId>>,
        error |-> None]
  ELSE IF outcome.event = "close"
  THEN [success |-> FALSE,
        message |-> <<"Failed to", action, pluginId>>,
        error |-> Some(<<"Exit code", outcome.code>>)]
  ELSE [success |-> FALSE,
        message |-> <<"Failed to execute claude command">>,
        error |-> Some(<<"spawn error">>)]

\* executePluginAction: spawn('claude', ['plugin', action, pluginId])
spawn(w, action, pluginId) ==
  [w EXCEPT !.inflight = Append(@, [action |-> action, pluginId |-> pluginId])]

\* The installation entry the external program records
NewEntry ==
  [version |-> <<"1">>,
   installedAt |-> "2024-06-01T00:00:00Z",
   lastUpdated |-> "2024-06-01T00:00:00Z",
   gitCommitSha |-> <<"s">>,
   isLocal |-> FALSE]

\* What a run of the external program that exits with 0 leaves on disk: the
\* id is added to (removed from) the installed registry.  The settings
\* document is written by the dashboard alone.
ExternalEffect(d, action, pluginId) ==
  LET reg == IF d.installedPlugins.status = "ok" /\ IsSome(d.installedPlugins.value.plugins)
             THEN Get(d.installedPlugins.value.plugins) ELSE EmptyMap
      newReg == IF action = "install"
                THEN [id \in DOMAIN reg \cup {pluginId} |->
                        IF id \in DOMAIN reg /\ reg[id] # << >> THEN reg[id]
                        ELSE <<NewEntry>>]
                ELSE [id \in DOMAIN reg \ {pluginId} |-> reg[id]]
  IN  [d EXCEPT !.installedPlugins =
         [status |-> "ok", value |-> [plugins |-> Some(newReg)]]]

----------------------------------------------------------------------------
(* app.tsx: handleInstall, handleUninstall and the useInput handler.       *)
(* A session w is [state, isSearchMode, disk, inflight, phase]; a key      *)
(* event k is [input, ctrl, meta, name] with name the special key          *)
(* ("escape", "return", "upArrow", ...) or "none".                         *)

\* handleInstall(pluginId), up to its await (lines 284-290)
handleInstall(w, pluginId) ==
  spawn(dispatch(w, ActP("START_OPERATION",
                         [operation |-> "installing", pluginId |-> pluginId])),
        "install", pluginId)

\* handleUninstall(pluginId), up to its await (lines 310-316)
handleUninstall(w, pluginId) ==
  spawn(dispatch(w, ActP("START_OPERATION",
                         [operation |-> "uninstalling", pluginId |-> pluginId])),
        "uninstall", pluginId)

\* Variant: END_OPERATION is dispatched on the success path only
AfterAwaitEndsOnSuccessOnly(w, result) ==
  LET ended == dispatch(w, Act("END_OPERATION"))
      plugins == loadAllPlugins(w.disk)
  IN  IF result.success
      THEN IF plugins.kind = "throw" THEN [ended EXCEPT !.phase = "crashed"]
           ELSE dispatch(dispatch(ended, ActP("SET_PLUGINS", plugins.value)),
                         ActP("SET_MESSAGE", Some(<<"ok", result.message>>)))
      ELSE dispatch(w, ActP("SET_MESSAGE",
                            Some(<<"failed", result.message, result.error>>)))

\* The continuation of handleInstall / handleUninstall after the await
\* (lines 292-304, 318-330).  Neither handler has a try/catch and the key
\* handler does not await them (lines 351, 496): a loadAllPlugins that
\* throws rejects the promise after END_OPERATION, nothing more is
\* dispatched, and the rejection is unhandled, which ends the process under
\* the required runtime (Node.js 20 or later)
AfterAwait(w, result) ==
  LET ended == dispatch(w, Act("END_OPERATION"))
      plugins == loadAllPlugins(w.disk)
  IN  IF result.success
      THEN IF plugins.kind = "throw" THEN [ended EXCEPT !.phase = "crashed"]
           ELSE dispatch(dispatch(ended, ActP("SET_PLUGINS", plugins.value)),
                         ActP("SET_MESSAGE", Some(<<"ok", result.message>>)))
      ELSE dispatch(ended, ActP("SET_MESSAGE",
                                Some(<<"failed", result.message, result.error>>)))

\* Variant: only an install closes the gate
OperationGateInstallOnly(st) == st.operation = "installing"

\* Block all input during operations (lines 336-338)
OperationGate(st) == st.operation # "idle"

\* state.confirmUninstall && state.operationPluginId (line 341)
ConfirmPending(st) ==
  st.confirmUninstall /\ IsSome(st.operationPluginId)
    /\ TruthyStr(Get(st.operationPluginId))

\* Variant: the dialog is left open when the uninstall starts
ConfirmYesKeepDialog(w) ==
  handleUninstall(w, Get(w.state.operationPluginId))

\* The affirmative answer of the confirmation dialog (lines 342-346)
ConfirmYes(w) ==
  handleUninstall(dispatch(w, Act("HIDE_CONFIRM_UNINSTALL")),
                  Get(w.state.operationPluginId))

\* Variant: every key other than y and Y cancels
ConfirmKeysAnyKeyCancels(w, k) ==
  IF k.input = "y" \/ k.input = "Y" THEN ConfirmYes(w)
  ELSE dispatch(dispatch(w, Act("HIDE_CONFIRM_UNINSTALL")),
                ActP("SET_MESSAGE", Some(<<"Uninstall cancelled">>)))

\* Handle confirmation dialog (lines 341-353)
ConfirmKeys(w, k) ==
  IF k.input = "y" \/ k.input = "Y" THEN ConfirmYes(w)
  ELSE IF k.input = "n" \/ k.input = "N" \/ k.name = "escape"
  THEN dispatch(dispatch(w, Act("HIDE_CONFIRM_UNINSTALL")),
                ActP("SET_MESSAGE", Some(<<"Uninstall cancelled">>)))
  ELSE w

\* state.searchQuery.slice(0, -1)
DropLast(s) == IF s = << >> THEN s ELSE SubSeq(s, 1, Len(s) - 1)

\* Variant: q quits from search entry as well
SearchKeysQuits(w, k) ==
  IF k.name = "escape" \/ k.name = "return"
  THEN [w EXCEPT !.isSearchMode = FALSE]
  ELSE IF k.name = "backspace" \/ k.name = "delete"
  THEN dispatch(w, ActP("SET_SEARCH_QUERY", DropLast(w.state.searchQuery)))
  ELSE IF k.input = "q" /\ ~k.ctrl /\ ~k.meta
  THEN [w EXCEPT !.phase = "exited"]
  ELSE IF k.input # "" /\ ~k.ctrl /\ ~k.meta
  THEN dispatch(w, ActP("SET_SEARCH_QUERY", Append(w.state.searchQuery, k.input)))
  ELSE w

\* Variant: Tab switches the tab from search entry as well
SearchKeysTabSwitches(w, k) ==
  IF k.name = "escape" \/ k.name = "return"
  THEN [w EXCEPT !.isSearchMode = FALSE]
  ELSE IF k.name = "backspace" \/ k.name = "delete"
  THEN dispatch(w, ActP("SET_SEARCH_QUERY", DropLast(w.state.searchQuery)))
  ELSE IF k.name = "tab"
  THEN dispatch(w, Act("NEXT_TAB"))
  ELSE IF k.input # "" /\ ~k.ctrl /\ ~k.meta
  THEN dispatch(w, ActP("SET_SEARCH_QUERY", Append(w.state.searchQuery, k.input)))
  ELSE w

\* Variant: Escape leaves search entry and clears the query
SearchKeysEscapeClears(w, k) ==
  IF k.name = "escape"
  THEN dispatch([w EXCEPT !.isSearchMode = FALSE], ActP("SET_SEARCH_QUERY", << >>))
  ELSE IF k.name = "return"
  THEN [w EXCEPT !.isSearchMode = FALSE]
  ELSE IF k.name = "backspace" \/ k.name = "delete"
  THEN dispatch(w, ActP("SET_SEARCH_QUERY", DropLast(w.state.searchQuery)))
  ELSE IF k.input # "" /\ ~k.ctrl /\ ~k.meta
  THEN dispatch(w, ActP("SET_SEARCH_QUERY", Append(w.state.searchQuery, k.input)))
  ELSE w

\* Search mode input (lines 356-376)
SearchKeys(w, k) ==
  IF k.name = "escape" \/ k.name = "return"
  THEN [w EXCEPT !.isSearchMode = FALSE]
  ELSE IF k.name = "backspace" \/ k.name = "delete"
  THEN dispatch(w, ActP("SET_SEARCH_QUERY", DropLast(w.state.searchQuery)))
  ELSE IF k.input # "" /\ ~k.ctrl /\ ~k.meta
  THEN dispatch(w, ActP("SET_SEARCH_QUERY", Append(w.state.searchQuery, k.input)))
  ELSE w

\* items[state.selectedIndex] of the install, uninstall and toggle keys
SelectedPlugin(st) ==
  LET items == IF st.activeTab = "installed"
               THEN InstalledOf(st.plugins)
               ELSE getFilteredPlugins(st)
  IN  IF st.selectedIndex + 1 \in DOMAIN items
      THEN Some(items[st.selectedIndex + 1]) ELSE None

OnPluginTab(st) == st.activeTab = "discover" \/ st.activeTab = "installed"

\* Variant: the record is patched before the settings write is attempted
ToggleKeyPatchFirst(w) ==
  LET sel == SelectedPlugin(w.state)
  IN  IF IsSome(sel) /\ Get(sel).isInstalled
      THEN LET patched == dispatch(w, ActP("TOGGLE_PLUGIN_ENABLED", Get(sel).id))
               toggled == togglePlugin(w.disk, Get(sel).id)
           IN  IF toggled.kind = "throw"
               THEN dispatch(patched,
                             ActP("SET_MESSAGE", Some(<<"Error", toggled.error>>)))
               ELSE dispatch([patched EXCEPT !.disk = toggled.disk],
                      ActP("SET_MESSAGE",
                           Some(<<IF toggled.value THEN "enabled" ELSE "disabled",
                                  Get(sel).name>>)))
      ELSE w

\* Toggle plugin (Space or Enter) (lines 419-450)
ToggleKey(w) ==
  LET sel == SelectedPlugin(w.state)
  IN  IF IsSome(sel) /\ Get(sel).isInstalled
      THEN LET toggled == togglePlugin(w.disk, Get(sel).id)
           IN  IF toggled.kind = "throw"
               THEN dispatch(w, ActP("SET_MESSAGE", Some(<<"Error", toggled.error>>)))
               ELSE dispatch(
                      dispatch([w EXCEPT !.disk = toggled.disk],
                               ActP("TOGGLE_PLUGIN_ENABLED", Get(sel).id)),
                      ActP("SET_MESSAGE",
                           Some(<<IF toggled.value THEN "enabled" ELSE "disabled",
                                  Get(sel).name>>)))
      ELSE w

\* Variant: the date key is left out of the cycle
NextSortOfTwoKeys(sortBy) ==
  CASE sortBy = "installs" -> "name"
    [] sortBy = "name" -> "installs"
    [] sortBy = "date" -> "installs"

\* Cycle sort (s key) (lines 453-464)
NextSortOf(sortBy) ==
  CASE sortBy = "installs" -> "name"
    [] sortBy = "name" -> "date"
    [] sortBy = "date" -> "installs"

\* Variant: the install key takes the first row of the list
InstallKeyFirstRow(w) ==
  LET sel == SelectedPlugin([w.state EXCEPT !.selectedIndex = 0])
  IN  IF IsSome(sel) /\ ~Get(sel).isInstalled THEN handleInstall(w, Get(sel).id)
      ELSE IF IsSome(sel)
      THEN dispatch(w, ActP("SET_MESSAGE", Some(<<"Plugin is already installed">>)))
      ELSE w

\* Variant: the install key installs whatever is selected
InstallKeyReinstalls(w) ==
  LET sel == SelectedPlugin(w.state)
  IN  IF IsSome(sel) THEN handleInstall(w, Get(sel).id) ELSE w

\* Install (i key) (lines 485-504)
InstallKey(w) ==
  LET sel == SelectedPlugin(w.state)
  IN  IF IsSome(sel) /\ ~Get(sel).isInstalled THEN handleInstall(w, Get(sel).id)
      ELSE IF IsSome(sel)
      THEN dispatch(w, ActP("SET_MESSAGE", Some(<<"Plugin is already installed">>)))
      ELSE w

\* Variant: the uninstall key starts the uninstall without asking
UninstallKeyDirect(w) ==
  LET sel == SelectedPlugin(w.state)
  IN  IF IsSome(sel) /\ Get(sel).isInstalled
      THEN handleUninstall(w, Get(sel).id)
      ELSE IF IsSome(sel)
      THEN dispatch(w, ActP("SET_MESSAGE", Some(<<"Plugin is not installed">>)))
      ELSE w

\* Uninstall (u key) (lines 507-523)
UninstallKey(w) ==
  LET sel == SelectedPlugin(w.state)
  IN  IF IsSome(sel) /\ Get(sel).isInstalled
      THEN dispatch(w, ActP("SHOW_CONFIRM_UNINSTALL", Get(sel).id))
      ELSE IF IsSome(sel)
      THEN dispatch(w, ActP("SET_MESSAGE", Some(<<"Plugin is not installed">>)))
      ELSE w

\* Variant: only Ctrl+C quits
QuitKeyCtrlCOnly(w, k) ==
  IF k.ctrl /\ k.input = "c"
  THEN [w EXCEPT !.phase = "exited"]
  ELSE w

\* Exit (q or Ctrl+C) (lines 526-529)
QuitKey(w, k) ==
  IF k.input = "q" \/ (k.ctrl /\ k.input = "c")
  THEN [w EXCEPT !.phase = "exited"]
  ELSE w

\* The keys of the navigating state (lines 378-529), in the order of the code
NormalKeys(w, k) ==
  LET st == w.state
  IN  IF k.ctrl /\ k.input = "p" THEN dispatch(w, ActP("MOVE_SELECTION", "up"))
      ELSE IF k.ctrl /\ k.input = "n" THEN dispatch(w, ActP("MOVE_SELECTION", "down"))
      ELSE IF k.name = "leftArrow" THEN dispatch(w, Act("PREV_TAB"))
      ELSE IF k.name = "rightArrow" THEN dispatch(w, Act("NEXT_TAB"))
      ELSE IF k.name = "tab" THEN dispatch(w, Act("NEXT_TAB"))
      ELSE IF k.name = "upArrow" THEN dispatch(w, ActP("MOVE_SELECTION", "up"))
      ELSE IF k.name = "downArrow" THEN dispatch(w, ActP("MOVE_SELECTION", "down"))
      ELSE IF k.input = "/" /\ st.activeTab = "discover"
      THEN [w EXCEPT !.isSearchMode = TRUE]
      ELSE IF (k.input = " " \/ k.name = "return") /\ OnPluginTab(st)
      THEN ToggleKey(w)
      ELSE IF k.input = "s" /\ st.activeTab = "discover"
      THEN dispatch(w, ActP("SET_SORT",
                            [by |-> NextSortOf(st.sortBy), order |-> st.sortOrder]))
      ELSE IF k.input = "S" /\ st.activeTab = "discover"
      THEN dispatch(w, ActP("SET_SORT",
                            [by |-> st.sortBy,
                             order |-> IF st.sortOrder = "asc" THEN "desc" ELSE "asc"]))
      ELSE IF k.name = "escape" /\ TruthyStr(st.searchQuery)
      THEN dispatch(w, ActP("SET_SEARCH_QUERY", << >>))
      ELSE IF k.input = "i" /\ OnPluginTab(st) THEN InstallKey(w)
      ELSE IF k.input = "u" /\ OnPluginTab(st) THEN UninstallKey(w)
      ELSE QuitKey(w, k)

\* Variant: the quit test is made before the operation gate
useInputQuitFirst(w, k) ==
  IF k.input = "q" \/ (k.ctrl /\ k.input = "c") THEN QuitKey(w, k)
  ELSE IF OperationGate(w.state) THEN w
  ELSE IF ConfirmPending(w.state) THEN ConfirmKeys(w, k)
  ELSE IF w.isSearchMode THEN SearchKeys(w, k)
  ELSE NormalKeys(w, k)

\* The useInput handler (lines 334-530)
useInput(w, k) ==
  IF OperationGate(w.state) THEN w
  ELSE IF ConfirmPending(w.state) THEN ConfirmKeys(w, k)
  ELSE IF w.isSearchMode THEN SearchKeys(w, k)
  ELSE NormalKeys(w, k)

----------------------------------------------------------------------------
(* The documents the session starts from *)

M1 == <<"m", "1">>
M2 == <<"m", "2">>

CatalogEntry(name, description, category, tags) ==
  [name |-> name, description |-> description, version |-> Some(<<"2">>),
   category |-> category, tags |-> tags, keywords |-> None]

EntrySu == CatalogEntry(<<"s", "u">>, Some(<<"n">>), None, None)
EntryYq == CatalogEntry(<<"y", "q">>, None, Some(<<"S">>), Some(<<<<"i">>, <<"y">>>>))

IdSu == PluginId(<<"s", "u">>, M1)
IdYq == PluginId(<<"y", "q">>, M2)

OkDoc(value) == [status |-> "ok", value |-> value]
MissingDoc == [status |-> "missing"]
MalformedDoc == [status |-> "malformed"]

InstalledEntry(stamp) ==
  [version |-> <<"1">>, installedAt |-> stamp, lastUpdated |-> stamp,
   gitCommitSha |-> <<"s">>, isLocal |-> FALSE]

\* Registries the session may find at start: nothing installed, or one
\* plugin installed earlier
SessionRegistries ==
  {EmptyMap, (IdSu :> <<InstalledEntry("2024-01-01T00:00:00Z")>>)}

SessionEnabled == {(IdSu :> TRUE)}

SessionDisk(reg, enabled) ==
  [settings |-> OkDoc([enabledPlugins |-> Some(enabled), other |-> "theme"]),
   installedPlugins |-> OkDoc([plugins |-> Some(reg)]),
   installCountsCache |->
     OkDoc([counts |-> Some(<<[plugin |-> IdSu, unique_installs |-> 5],
                              [plugin |-> IdYq, unique_installs |-> 7]>>)]),
   knownMarketplaces |-> OkDoc(<<M1, M2>>),
   marketplacesDir |-> [exists |-> TRUE, names |-> <<M1, M2>>],
   catalog |-> (M1 :> OkDoc([plugins |-> Some(<<EntrySu>>)]))
                 @@ (M2 :> OkDoc([plugins |-> Some(<<EntryYq>>)])),
   readOnly |-> FALSE]

SessionDisks ==
  {SessionDisk(reg, enabled) : reg \in SessionRegistries, enabled \in SessionEnabled}

----------------------------------------------------------------------------
(* The key events *)

\* The longest search query the model follows
MaxQuery == 1

CharKey(c) == [input |-> c, ctrl |-> FALSE, meta |-> FALSE, name |-> "none"]
CtrlKey(c) == [input |-> c, ctrl |-> TRUE, meta |-> FALSE, name |-> "none"]
SpecialKey(n) == [input |-> "", ctrl |-> FALSE, meta |-> FALSE, name |-> n]

Chars == {"/", " ", "s", "S", "i", "u", "q", "y", "Y", "n", "N"}

Specials == {"escape", "return", "tab", "backspace", "delete",
             "upArrow", "downArrow", "leftArrow", "rightArrow"}

Keys ==
  {CharKey(c) : c \in Chars} \cup {CtrlKey(c) : c \in {"p", "n", "c"}}
    \cup {SpecialKey(n) : n \in Specials}

----------------------------------------------------------------------------
(* The interactive session *)

\* The session the handlers read and write
W == [state |-> state, isSearchMode |-> isSearchMode, disk |-> disk,
      inflight |-> inflight, phase |-> phase]

Install(w) ==
  /\ state' = w.state
  /\ isSearchMode' = w.isSearchMode
  /\ disk' = w.disk
  /\ inflight' = w.inflight
  /\ phase' = w.phase

Init ==
  /\ disk \in SessionDisks
  /\ state = initialState
  /\ isSearchMode = FALSE
  /\ phase = "init"
  /\ inflight = << >>
  /\ gated = FALSE
  /\ aggResult = [kind |-> "none"]
  /\ aggPrevious = [kind |-> "none"]

\* Load data on mount (lines 266-279)
MountEffect(w) ==
  LET plugins == loadAllPlugins(w.disk)
      marketplaces == loadMarketplaces(w.disk)
      mounted == [w EXCEPT !.phase = "running"]
  IN  IF plugins.kind = "throw"
      THEN dispatch(mounted, ActP("SET_ERROR", Some(plugins.error)))
      ELSE IF marketplaces.kind = "throw"
      THEN dispatch(mounted, ActP("SET_ERROR", Some(marketplaces.error)))
      ELSE dispatch(dispatch(mounted, ActP("SET_PLUGINS", plugins.value)),
                    ActP("SET_MARKETPLACES", marketplaces.value))

Mount ==
  /\ phase = "init"
  /\ Install(MountEffect(W))
  /\ gated' = FALSE
  /\ UNCHANGED <<aggResult, aggPrevious>>

\* A key event reaches the useInput handler
KeyPress ==
  /\ phase = "running"
  /\ \E k \in Keys :
       \E after \in {useInput(W, k)} :
         /\ Len(after.state.searchQuery) <= MaxQuery
         /\ Install(after)
  /\ gated' = OperationGate(state)
  /\ UNCHANGED <<aggResult, aggPrevious>>

\* The subprocess of an in-flight action ends and the awaiting handler resumes
SettleEffect(w, i, outcome) ==
  LET job == w.inflight[i]
      result == ActionResult(job.action, job.pluginId, outcome)
      rest == [j \in 1..(Len(w.inflight) - 1) |->
                 IF j < i THEN w.inflight[j] ELSE w.inflight[j + 1]]
      after == [w EXCEPT !.inflight = rest,
                         !.disk = IF result.success
                                  THEN ExternalEffect(w.disk, job.action, job.pluginId)
                                  ELSE w.disk]
  IN  IF w.phase = "running" THEN AfterAwait(after, result) ELSE after

Settle ==
  /\ \E i \in DOMAIN inflight, outcome \in Outcomes :
       Install(SettleEffect(W, i, outcome))
  /\ gated' = FALSE
  /\ UNCHANGED <<aggResult, aggPrevious>>

Next == Mount \/ KeyPress \/ Settle

Spec == Init /\ [][Next]_vars

----------------------------------------------------------------------------
(* Aggregation on its own: loadAllPlugins over every combination of the    *)
(* documents below                                                         *)

\* The most installation entries the model lists for one plugin id
MaxEntries == 2

EntryI == CatalogEntry(<<"i">>, None, None, None)

AggEntries ==
  {InstalledEntry("2024-01-01T00:00:00Z"),
   [InstalledEntry("2024-03-01T00:00:00Z") EXCEPT !.version = << >>,
                                                  !.gitCommitSha = <<"t">>,
                                                  !.isLocal = TRUE]}

\* Sequences over S of length at most n
RECURSIVE SeqsUpTo(_, _)
SeqsUpTo(S, n) ==
  IF n = 0 THEN {<< >>}
  ELSE LET shorter == SeqsUpTo(S, n - 1)
       IN  shorter \cup {Append(s, x) : s \in {q \in shorter : Len(q) = n - 1}, x \in S}

\* The partial maps that give each key of K1 a value of V1 and each key of
\* K2 a value of V2, or leave it out
PartialMaps(K1, V1, K2, V2) ==
  UNION {{[k \in D1 \cup D2 |-> IF k \in D1 THEN f1[k] ELSE f2[k]] :
            f1 \in [D1 -> V1], f2 \in [D2 -> V2]} :
         D1 \in SUBSET K1, D2 \in SUBSET K2}

AggRegistries ==
  PartialMaps({IdSu}, SeqsUpTo(AggEntries, MaxEntries),
              {IdYq}, {<<InstalledEntry("2024-03-01T00:00:00Z")>>})

AggInstalledDocs ==
  {MissingDoc, MalformedDoc, OkDoc([plugins |-> None])}
    \cup {OkDoc([plugins |-> Some(reg)]) : reg \in AggRegistries}

AggCountsDocs ==
  {MissingDoc, MalformedDoc, OkDoc([counts |-> None]),
   OkDoc([counts |-> Some(<<[plugin |-> IdSu, unique_installs |-> 5],
                            [plugin |-> IdYq, unique_installs |-> 7]>>)]),
   OkDoc([counts |-> Some(<<[plugin |-> IdSu, unique_installs |-> 5],
                            [plugin |-> PluginId(<<"q">>, M1), unique_installs |-> 42],
                            [plugin |-> IdSu, unique_installs |-> 0]>>)])}

AggSettingsDocs ==
  {MissingDoc, MalformedDoc, OkDoc([enabledPlugins |-> None, other |-> "theme"])}
    \cup {OkDoc([enabledPlugins |-> Some(en), other |-> "theme"]) :
            en \in PartialMaps({IdSu}, BOOLEAN, {IdYq}, {TRUE})}

AggCatalogsM1 ==
  {MissingDoc, MalformedDoc, OkDoc([plugins |-> None]),
   OkDoc([plugins |-> Some(<<EntrySu>>)]),
   OkDoc([plugins |-> Some(<<EntryI, EntrySu>>)]),
   OkDoc([plugins |-> Some(<<EntrySu, [EntrySu EXCEPT !.description = None]>>)])}

AggCatalogsM2 ==
  {MissingDoc, MalformedDoc, OkDoc([plugins |-> Some(<<EntryYq>>)])}

AggDisks ==
  {[settings |-> s, installedPlugins |-> ip, installCountsCache |-> c,
    knownMarketplaces |-> OkDoc(<<M1, M2>>),
    marketplacesDir |-> [exists |-> e, names |-> <<M1, M2>>],
    catalog |-> (M1 :> c1) @@ (M2 :> c2),
    readOnly |-> FALSE] :
     s \in AggSettingsDocs, ip \in AggInstalledDocs, c \in AggCountsDocs,
     e \in BOOLEAN, c1 \in AggCatalogsM1, c2 \in AggCatalogsM2}

InitAgg ==
  /\ disk \in AggDisks
  /\ state = initialState
  /\ isSearchMode = FALSE
  /\ phase = "init"
  /\ inflight = << >>
  /\ gated = FALSE
  /\ aggResult = [kind |-> "none"]
  /\ aggPrevious = [kind |-> "none"]

\* One call of loadAllPlugins(); the result of the call before it is kept
RunLoadAll ==
  /\ aggPrevious.kind = "none"
  /\ aggResult' = loadAllPlugins(disk)
  /\ aggPrevious' = aggResult
  /\ UNCHANGED <<disk, state, isSearchMode, phase, inflight, gated>>

NextAgg == RunLoadAll

SpecAgg == InitAgg /\ [][NextAgg]_vars

----------------------------------------------------------------------------
(* Installs and uninstalls to their end: the session with the keys that    *)
(* select, install, uninstall, confirm and quit, and a subprocess that     *)
(* always ends, by closing or by failing to launch (the 'close' and        *)
(* 'error' events of the child process)                                    *)

OperationKeys ==
  {CharKey("i"), CharKey("u"), CharKey("y"), CharKey("n"), CharKey("q"),
   SpecialKey("upArrow"), SpecialKey("downArrow"), SpecialKey("tab"),
   SpecialKey("escape")}

\* One of these keys reaches the useInput handler
OperationKeyPress ==
  /\ phase = "running"
  /\ \E k \in OperationKeys : Install(useInput(W, k))
  /\ gated' = OperationGate(state)
  /\ UNCHANGED <<aggResult, aggPrevious>>

NextOperations == Mount \/ OperationKeyPress \/ Settle

SpecOperations == Init /\ [][NextOperations]_vars /\ WF_vars(Settle)

----------------------------------------------------------------------------
(* The enabled state: togglePlugin and setPluginEnabled called on their    *)
(* own (as the `toggle`, `enable` and `disable` commands call them) and    *)
(* the toggle key of a session, over settings documents of every shape     *)
(* and a settings file that can or cannot be written                       *)

ToggleIds == {IdSu, IdYq}

ToggleSettingsDocs ==
  {MissingDoc, MalformedDoc, OkDoc([enabledPlugins |-> None, other |-> "theme"])}
    \cup {OkDoc([enabledPlugins |-> Some(en), other |-> "theme"]) :
            en \in PartialMaps({IdSu}, BOOLEAN, {IdYq}, BOOLEAN)}

ToggleRegistries ==
  {(IdSu :> <<InstalledEntry("2024-01-01T00:00:00Z")>>),
   (IdSu :> <<InstalledEntry("2024-01-01T00:00:00Z")>>)
     @@ (IdYq :> <<InstalledEntry("2024-03-01T00:00:00Z")>>)}

ToggleDisks ==
  {[SessionDisk(reg, EmptyMap) EXCEPT !.settings = s, !.readOnly = ro] :
     reg \in ToggleRegistries, s \in ToggleSettingsDocs, ro \in BOOLEAN}

ToggleKeys ==
  {CharKey(" "), SpecialKey("return"), SpecialKey("upArrow"),
   SpecialKey("downArrow"), SpecialKey("tab")}

InitToggle ==
  /\ disk \in ToggleDisks
  /\ state = initialState
  /\ isSearchMode = FALSE
  /\ phase = "init"
  /\ inflight = << >>
  /\ gated = FALSE
  /\ aggResult = [kind |-> "none"]
  /\ aggPrevious = [kind |-> "none"]

\* A navigation or toggle key reaches the useInput handler
ToggleKeyPress ==
  /\ phase = "running"
  /\ \E k \in ToggleKeys : Install(useInput(W, k))
  /\ gated' = OperationGate(state)
  /\ UNCHANGED <<aggResult, aggPrevious>>

\* togglePlugin(pluginId) called on its own
CallTogglePlugin ==
  /\ \E pluginId \in ToggleIds :
       \E r \in {togglePlugin(disk, pluginId)} :
         /\ disk' = r.disk
         /\ aggResult' = [kind |-> r.kind, call |-> "togglePlugin",
                          pluginId |-> pluginId]
  /\ aggPrevious' = aggResult
  /\ UNCHANGED <<state, isSearchMode, phase, inflight, gated>>

\* setPluginEnabled(pluginId, enabled) called on its own
CallSetPluginEnabled ==
  /\ \E pluginId \in ToggleIds, enabled \in BOOLEAN :
       \E r \in {setPluginEnabled(disk, pluginId, enabled)} :
         /\ disk' = r.disk
         /\ aggResult' = [kind |-> r.kind, call |-> "setPluginEnabled",
                          pluginId |-> pluginId]
  /\ aggPrevious' = aggResult
  /\ UNCHANGED <<state, isSearchMode, phase, inflight, gated>>

NextToggle == Mount \/ ToggleKeyPress \/ CallTogglePlugin \/ CallSetPluginEnabled

SpecToggle == InitToggle /\ [][NextToggle]_vars

----------------------------------------------------------------------------
(* A session whose documents are damaged behind its back: after a          *)
(* successful start another program leaves a primary document malformed    *)
(* or missing, or the settings file read-only                              *)

FaultKeys ==
  {CharKey("i"), CharKey("u"), CharKey("y"), CharKey("n"), CharKey(" "),
   SpecialKey("upArrow"), SpecialKey("downArrow"), SpecialKey("tab")}

\* One of these keys reaches the useInput handler
FaultKeyPress ==
  /\ phase = "running"
  /\ \E k \in FaultKeys : Install(useInput(W, k))
  /\ gated' = OperationGate(state)
  /\ UNCHANGED <<aggResult, aggPrevious>>

\* The documents after one of them has been damaged
Damaged(d) ==
  {[d EXCEPT !.settings = MalformedDoc],
   [d EXCEPT !.settings = MissingDoc],
   [d EXCEPT !.installedPlugins = MalformedDoc],
   [d EXCEPT !.readOnly = TRUE]}

\* Another program damages a document while the session is running
DocumentFault ==
  /\ phase = "running"
  /\ \E d \in Damaged(disk) : d # disk /\ disk' = d
  /\ UNCHANGED <<state, isSearchMode, phase, inflight, gated, aggResult,
                 aggPrevious>>

NextFaults == Mount \/ FaultKeyPress \/ Settle \/ DocumentFault

SpecFaults == Init /\ [][NextFaults]_vars

----------------------------------------------------------------------------
(* A session whose start fails: one of the documents read on mount is      *)
(* missing or malformed in a way loadAllPlugins or loadMarketplaces does    *)
(* not tolerate, and every key may then arrive                             *)

StartupFaults(d) ==
  {[d EXCEPT !.settings = MalformedDoc],
   [d EXCEPT !.settings = MissingDoc],
   [d EXCEPT !.installedPlugins = MalformedDoc],
   [d EXCEPT !.installCountsCache = MalformedDoc],
   [d EXCEPT !.knownMarketplaces = MalformedDoc],
   [d EXCEPT !.catalog[M1] = MalformedDoc]}

InitStartup ==
  /\ disk \in UNION {StartupFaults(d) : d \in SessionDisks}
  /\ state = initialState
  /\ isSearchMode = FALSE
  /\ phase = "init"
  /\ inflight = << >>
  /\ gated = FALSE
  /\ aggResult = [kind |-> "none"]
  /\ aggPrevious = [kind |-> "none"]

NextStartup == Mount \/ KeyPress

SpecStartup == InitStartup /\ [][NextStartup]_vars

----------------------------------------------------------------------------
(* Navigation: the keys that move between tabs and rows, open and close    *)
(* the search entry and the confirmation, and install and uninstall (which *)
(* change the length of the lists under the selection)                     *)

NavigationKeys ==
  {CharKey(c) : c \in {"/", "s", "S", "i", "u", "y", "n", "q"}}
    \cup {CtrlKey(c) : c \in {"p", "n"}}
    \cup {SpecialKey(n) : n \in Specials}

\* One of these keys reaches the useInput handler
NavigationKeyPress ==
  /\ phase = "running"
  /\ \E k \in NavigationKeys :
       \E after \in {useInput(W, k)} :
         /\ Len(after.state.searchQuery) <= MaxQuery
         /\ Install(after)
  /\ gated' = OperationGate(state)
  /\ UNCHANGED <<aggResult, aggPrevious>>

NextNavigation == Mount \/ NavigationKeyPress \/ Settle

SpecNavigation == Init /\ [][NextNavigation]_vars

----------------------------------------------------------------------------
(* The query layer on its own: searchPlugins and sortPlugins applied to    *)
(* every list of at most MaxRecords of the records below                   *)

\* The longest list of records searched or sorted
MaxRecords == 3

QueryRecord(name, marketplace, description, category, tags, installCount, installedAt) ==
  [id |-> PluginId(name, marketplace), name |-> name, marketplace |-> marketplace,
   description |-> description, version |-> <<"1">>,
   installCount |-> installCount, isInstalled |-> IsSome(installedAt),
   isEnabled |-> FALSE, installedAt |-> installedAt, lastUpdated |-> installedAt,
   category |-> category, tags |-> tags,
   isLocal |-> IF IsSome(installedAt) THEN Some(FALSE) ELSE None,
   gitCommitSha |-> IF IsSome(installedAt) THEN Some(<<"s">>) ELSE None]

\* Names that differ in case only, equal counts, equal and absent dates,
\* and a match in each of the five fields searched
QueryRecords ==
  {QueryRecord(<<"S", "u">>, M1, << >>, None, None, 5, None),
   QueryRecord(<<"s", "u">>, M2, <<"n">>, Some(<<"Y">>), Some(<< >>), 5,
               Some("2024-01-01T00:00:00Z")),
   QueryRecord(<<"y", "q">>, M1, <<"N", "u">>, None, Some(<<<<"i">>, <<"S">>>>), 7,
               Some("2024-03-01T00:00:00Z")),
   QueryRecord(<<"s">>, M2, << >>, Some(<<"q">>), None, 0,
               Some("2024-01-01T00:00:00Z"))}

Queries ==
  {<< >>, <<"s">>, <<"S">>, <<"U">>, <<"s", "u">>, <<"n">>, <<"Y">>, <<"q">>,
   <<"m", "1">>, <<"i">>, <<"2", "m">>}

InitQuery ==
  /\ disk \in SessionDisks
  /\ state = initialState
  /\ isSearchMode = FALSE
  /\ phase = "init"
  /\ inflight = << >>
  /\ gated = FALSE
  /\ aggResult = [kind |-> "none"]
  /\ \E records \in SeqsUpTo(QueryRecords, MaxRecords), query \in Queries,
        sortBy \in {"installs", "name", "date"}, order \in {"asc", "desc"} :
       aggPrevious = [kind |-> "arguments", records |-> records, query |-> query,
                      sortBy |-> sortBy, order |-> order]

\* searchPlugins(query, plugins) is called
CallSearchPlugins ==
  /\ aggResult.kind = "none"
  /\ aggResult' = [kind |-> "searchPlugins",
                   value |-> searchPlugins(aggPrevious.query, aggPrevious.records)]
  /\ UNCHANGED <<disk, state, isSearchMode, phase, inflight, gated, aggPrevious>>

\* sortPlugins(plugins, sortBy, order) is called
CallSortPlugins ==
  /\ aggResult.kind = "none"
  /\ aggResult' = [kind |-> "sortPlugins",
                   value |-> sortPlugins(aggPrevious.records, aggPrevious.sortBy,
                                         aggPrevious.order),
                   plugins |-> PluginsAfterSort(aggPrevious.records,
                                                aggPrevious.sortBy,
                                                aggPrevious.order)]
  /\ UNCHANGED <<disk, state, isSearchMode, phase, inflight, gated, aggPrevious>>

NextQuery == CallSearchPlugins \/ CallSortPlugins

SpecQuery == InitQuery /\ [][NextQuery]_vars

----------------------------------------------------------------------------
(* writeJsonFile step by step (fileService.ts, lines 40-61): each call of  *)
(* node:fs is a step of its own and may fail.  Here disk is                *)
(* [final, temp], the documents at filePath and at `${filePath}.tmp`;      *)
(* phase is the position in the function; aggPrevious holds the argument   *)
(* and the document found at filePath; aggResult holds the exception       *)
(* caught and then the outcome of the call.                                *)

WriteData ==
  {[enabledPlugins |-> Some(en), other |-> "theme"] :
     en \in {EmptyMap, (IdSu :> TRUE), (IdSu :> FALSE)}}

\* A value JSON.stringify throws on (a cyclic structure, a BigInt)
Unserializable == [enabledPlugins |-> None, other |-> "cyclic"]

\* `Failed to write ${filePath}: ${error.message}` (lines 57-59)
WriteError(filePath, caught) == <<"Failed to write", filePath, caught>>

\* Variant: the content is written to filePath itself
writeFileSyncInPlace(files, content, outcome) ==
  CASE outcome = "ok" -> [files EXCEPT !.final = OkDoc(content)]
    [] outcome = "ENOSPC" -> [files EXCEPT !.final = MalformedDoc]
    [] outcome = "EACCES" -> files

\* fs.writeFileSync(tempPath, content, 'utf-8') (line 45): the temporary
\* file holds the content, or the call fails after writing a part of it
\* (ENOSPC) or before opening the file (EACCES)
writeFileSync(files, content, outcome) ==
  CASE outcome = "ok" -> [files EXCEPT !.temp = OkDoc(content)]
    [] outcome = "ENOSPC" -> [files EXCEPT !.temp = MalformedDoc]
    [] outcome = "EACCES" -> files

\* fs.renameSync(tempPath, filePath) (line 47): the temporary file replaces
\* the document in one step, or nothing is changed
renameSync(files, outcome) ==
  IF outcome = "ok"
  THEN [final |-> files.temp, temp |-> MissingDoc]
  ELSE files

\* fs.unlinkSync(tempPath) inside try { } catch { } (lines 51-55)
unlinkSync(files, outcome) ==
  IF outcome = "ok" THEN [files EXCEPT !.temp = MissingDoc] ELSE files

InitWrite ==
  /\ \E final \in {MissingDoc} \cup {OkDoc(v) : v \in WriteData},
        temp \in {MissingDoc, MalformedDoc, OkDoc([enabledPlugins |-> None, other |-> "stale"])},
        data \in WriteData \cup {Unserializable} :
       /\ disk = [final |-> final, temp |-> temp]
       /\ aggPrevious = [kind |-> "arguments", data |-> data, previous |-> final]
  /\ state = initialState
  /\ isSearchMode = FALSE
  /\ phase = "try"
  /\ inflight = << >>
  /\ gated = FALSE
  /\ aggResult = [kind |-> "none"]

\* JSON.stringify and fs.writeFileSync (lines 43-45)
WriteTemp ==
  /\ phase = "try"
  /\ IF aggPrevious.data = Unserializable
     THEN /\ phase' = "catch"
          /\ aggResult' = [kind |-> "caught", error |-> "TypeError"]
          /\ disk' = disk
     ELSE \E outcome \in {"ok", "ENOSPC", "EACCES"} :
            /\ disk' = writeFileSync(disk, aggPrevious.data, outcome)
            /\ phase' = IF outcome = "ok" THEN "written" ELSE "catch"
            /\ aggResult' = IF outcome = "ok" THEN aggResult
                            ELSE [kind |-> "caught", error |-> outcome]
  /\ UNCHANGED <<state, isSearchMode, inflight, gated, aggPrevious>>

\* fs.renameSync (line 47)
Rename ==
  /\ phase = "written"
  /\ \E outcome \in {"ok", "EPERM"} :
       /\ disk' = renameSync(disk, outcome)
       /\ phase' = IF outcome = "ok" THEN "returned" ELSE "catch"
       /\ aggResult' = IF outcome = "ok" THEN [kind |-> "value"]
                       ELSE [kind |-> "caught", error |-> outcome]
  /\ UNCHANGED <<state, isSearchMode, inflight, gated, aggPrevious>>

\* The catch block (lines 48-60): the temporary file is unlinked if it
\* exists, a failure to unlink it is ignored, and the error is thrown
CatchAndThrow ==
  /\ phase = "catch"
  /\ \E outcome \in {"ok", "EACCES"} :
       /\ disk.temp = MissingDoc => outcome = "ok"
       /\ disk' = IF disk.temp # MissingDoc THEN unlinkSync(disk, outcome) ELSE disk
       /\ aggResult' = [kind |-> "throw",
                        error |-> WriteError(PATHS.settings, aggResult.error),
                        caught |-> aggResult.error,
                        unlinked |-> outcome = "ok"]
  /\ phase' = "thrown"
  /\ UNCHANGED <<state, isSearchMode, inflight, gated, aggPrevious>>

NextWrite == WriteTemp \/ Rename \/ CatchAndThrow

SpecWrite == InitWrite /\ [][NextWrite]_vars

----------------------------------------------------------------------------
(* executePluginAction event by event (pluginActionsService.ts, lines      *)
(* 38-82).  Here inflight holds the one child process with what its        *)
(* streams have delivered, phase is "spawned", "errored" (the 'error'      *)
(* event was emitted) or "closed", aggResult is the promise returned, and  *)
(* aggPrevious records the first of the events 'error' and 'close'.  An    *)
(* exit code is Some(n), or None for the null of a child ended by a        *)
(* signal.                                                                 *)

\* The most chunks a stream delivers
MaxChunks == 2

\* `Exit code: ${code}` (line 70)
ExitCodeText(code) == <<"Exit code", code>>

\* The 'close' listener's argument of resolve (lines 59-72)
onClose(action, pluginId, code, stdout, stderr) ==
  IF code = Some(0)
  THEN [success |-> TRUE,
        message |-> <<IF action = "install" THEN "Installed" ELSE "Uninstalled",
                      pluginId>>,
        error |-> None]
  ELSE [success |-> FALSE,
        message |-> <<"Failed to", action, pluginId>>,
        error |-> Some(IF TruthyStr(stderr) THEN stderr
                       ELSE IF TruthyStr(stdout) THEN stdout
                       ELSE ExitCodeText(code))]

\* The 'error' listener's argument of resolve (lines 74-80)
onError(err) ==
  [success |-> FALSE,
   message |-> <<"Failed to execute claude command">>,
   error |-> Some(err)]

\* Variant: a later call of resolve replaces the value
resolveLastWins(promise, value) ==
  [kind |-> "resolved", value |-> value]

\* resolve(value) of new Promise((resolve) => ...) (line 42): the first
\* call settles the promise, later calls do nothing
resolve(promise, value) ==
  IF promise.kind = "pending" THEN [kind |-> "resolved", value |-> value]
  ELSE promise

InitExecutor ==
  /\ \E action \in {"install", "uninstall"}, pluginId \in {IdSu, IdYq} :
       inflight = <<[action |-> action, pluginId |-> pluginId,
                     stdout |-> << >>, stderr |-> << >>]>>
  /\ disk \in SessionDisks
  /\ state = initialState
  /\ isSearchMode = FALSE
  /\ phase = "spawned"
  /\ gated = FALSE
  /\ aggResult = [kind |-> "pending"]
  /\ aggPrevious = [kind |-> "none"]

\* child.stdout 'data' (lines 51-53)
StdoutData ==
  /\ phase = "spawned" /\ Len(inflight[1].stdout) < MaxChunks
  /\ inflight' = <<[inflight[1] EXCEPT !.stdout = Append(@, "o")]>>
  /\ UNCHANGED <<disk, state, isSearchMode, phase, gated, aggResult, aggPrevious>>

\* child.stderr 'data' (lines 55-57)
StderrData ==
  /\ phase = "spawned" /\ Len(inflight[1].stderr) < MaxChunks
  /\ inflight' = <<[inflight[1] EXCEPT !.stderr = Append(@, "e")]>>
  /\ UNCHANGED <<disk, state, isSearchMode, phase, gated, aggResult, aggPrevious>>

\* child 'error': the process could not be spawned (lines 74-80)
ChildError ==
  /\ phase = "spawned"
  /\ inflight[1].stdout = << >> /\ inflight[1].stderr = << >>
  /\ \E err \in {<<"spawn claude ENOENT">>, <<"spawn claude EACCES">>} :
       /\ aggResult' = resolve(aggResult, onError(err))
       /\ aggPrevious' = [kind |-> "error", message |-> err]
  /\ phase' = "errored"
  /\ UNCHANGED <<disk, state, isSearchMode, inflight, gated>>

\* child 'close' (lines 59-72): after an exit with a code, after a signal
\* (code null), and also after a failed spawn (code below 0)
ChildClose ==
  /\ phase \in {"spawned", "errored"}
  /\ \E code \in IF phase = "errored" THEN {Some(-2)}
                  ELSE {Some(0), Some(1), None} :
       /\ aggResult' = resolve(aggResult,
                               onClose(inflight[1].action, inflight[1].pluginId,
                                       code, inflight[1].stdout,
                                       inflight[1].stderr))
       /\ aggPrevious' = IF aggPrevious.kind = "none"
                         THEN [kind |-> "close", code |-> code]
                         ELSE aggPrevious
  /\ phase' = "closed"
  /\ UNCHANGED <<disk, state, isSearchMode, inflight, gated>>

NextExecutor == StdoutData \/ StderrData \/ ChildError \/ ChildClose

SpecExecutor == InitExecutor /\ [][NextExecutor]_vars

----------------------------------------------------------------------------
(* loadMarketplaces on its own, over registries that are absent,           *)
(* malformed, empty or list one or two marketplaces, and catalogs of       *)
(* every shape                                                             *)

KnownDocs ==
  {MissingDoc, MalformedDoc, OkDoc(<< >>), OkDoc(<<M1>>), OkDoc(<<M1, M2>>),
   OkDoc(<<M2, M1>>)}

MarketplaceDisks ==
  {[SessionDisk(EmptyMap, EmptyMap) EXCEPT
      !.knownMarketplaces = known, !.catalog = (M1 :> c1) @@ (M2 :> c2)] :
     known \in KnownDocs, c1 \in AggCatalogsM1, c2 \in AggCatalogsM2}

InitMarketplaces ==
  /\ disk \in MarketplaceDisks
  /\ state = initialState
  /\ isSearchMode = FALSE
  /\ phase = "init"
  /\ inflight = << >>
  /\ gated = FALSE
  /\ aggResult = [kind |-> "none"]
  /\ aggPrevious = [kind |-> "none"]

\* One call of loadMarketplaces()
RunLoadMarketplaces ==
  /\ aggResult.kind = "none"
  /\ aggResult' = loadMarketplaces(disk)
  /\ UNCHANGED <<disk, state, isSearchMode, phase, inflight, gated, aggPrevious>>

NextMarketplaces == RunLoadMarketplaces

SpecMarketplaces == InitMarketplaces /\ [][NextMarketplaces]_vars

----------------------------------------------------------------------------
(* Properties of the aggregation (SpecAgg) *)

\* The documents as they are on disk, read without the code under test
RegistryOnDisk ==
  IF disk.installedPlugins.status = "ok" /\ IsSome(disk.installedPlugins.value.plugins)
  THEN Get(disk.installedPlugins.value.plugins) ELSE EmptyMap

EnabledOnDisk ==
  IF disk.settings.status = "ok" /\ IsSome(disk.settings.value.enabledPlugins)
  THEN Get(disk.settings.value.enabledPlugins) ELSE EmptyMap

MappedTrue(id) == id \in DOMAIN EnabledOnDisk /\ EnabledOnDisk[id]

HasEntry(id) == id \in DOMAIN RegistryOnDisk /\ RegistryOnDisk[id] # << >>

Returned == aggResult.kind = "value"

Records == IF Returned THEN {aggResult.value[i] : i \in DOMAIN aggResult.value} ELSE {}

\* C8 as stated: a catalog plugin whose id is absent from the installed
\* registry is aggregated with isInstalled = false and isEnabled = false,
\* whatever the enabled-state map holds for the id.
C8_AbsentNeverEnabled ==
  \A r \in Records :
    r.id \notin DOMAIN RegistryOnDisk => ~r.isInstalled /\ ~r.isEnabled

\* C8 amended: a catalog plugin whose id is absent from the installed
\* registry is aggregated with isInstalled = false, and its isEnabled is the
\* value the enabled-state map holds for the id (false when it holds none).
C8_AbsentFollowsSettings ==
  \A r \in Records :
    r.id \notin DOMAIN RegistryOnDisk =>
      ~r.isInstalled /\ (r.isEnabled <=> MappedTrue(r.id))

\* C8 witness: a returned record of a plugin that is not in the registry and
\* is mapped to true
C8_Witness ==
  \E r \in Records : r.id \notin DOMAIN RegistryOnDisk /\ MappedTrue(r.id)

\* C9: a catalog plugin whose id has an installation entry in the registry
\* and is mapped to true in the enabled-state map is aggregated with
\* isInstalled = true and isEnabled = true; and isInstalled is true exactly
\* when the registry lists at least one installation entry for the id.
C9_InstalledIffRegistered ==
  \A r \in Records :
    /\ (HasEntry(r.id) /\ MappedTrue(r.id)) => (r.isInstalled /\ r.isEnabled)
    /\ r.isInstalled <=> HasEntry(r.id)

\* C9 witness: an installed and enabled record whose id lists several
\* entries, next to a record that is not installed
C9_Witness ==
  \E r, o \in Records :
    /\ HasEntry(r.id) /\ Len(RegistryOnDisk[r.id]) > 1 /\ MappedTrue(r.id)
    /\ r.isInstalled /\ r.isEnabled
    /\ ~o.isInstalled

Ran == aggResult.kind # "none"

\* The primary documents are readable: the registry and the count cache are
\* missing or well-formed, the settings document is well-formed
PrimaryReadable ==
  /\ disk.installedPlugins.status # "malformed"
  /\ disk.installCountsCache.status # "malformed"
  /\ disk.settings.status = "ok"

\* The marketplace directories that are scanned
Scanned ==
  IF disk.marketplacesDir.exists
  THEN {disk.marketplacesDir.names[i] : i \in DOMAIN disk.marketplacesDir.names}
  ELSE {}

\* The names a marketplace's catalog lists (none when it lists nothing)
CatalogNames(m) ==
  IF disk.catalog[m].status = "ok" /\ IsSome(disk.catalog[m].value.plugins)
  THEN {Get(disk.catalog[m].value.plugins)[i].name :
          i \in DOMAIN Get(disk.catalog[m].value.plugins)}
  ELSE {}

RecordNames(m) == {r.name : r \in {x \in Records : x.marketplace = m}}


\* C10 as stated: with the primary documents readable, a marketplace whose
\* catalog is missing or malformed contributes no record and the pass still
\* returns the records of every other marketplace.
C10_BadCatalogTolerated ==
  (Ran /\ PrimaryReadable) =>
    /\ Returned
    /\ \A m \in Scanned : RecordNames(m) = CatalogNames(m)

\* C10 amended: with the primary documents readable and no scanned catalog
\* malformed, a marketplace whose catalog is missing contributes no record
\* and the pass returns the records of every other marketplace; a scanned
\* catalog that is malformed aborts the whole pass with an error naming that
\* catalog.
C10_MissingCatalogTolerated ==
  (Ran /\ PrimaryReadable) =>
    IF \E m \in Scanned : disk.catalog[m].status = "malformed"
    THEN /\ aggResult.kind = "throw"
         /\ \E m \in Scanned :
              /\ disk.catalog[m].status = "malformed"
              /\ aggResult.error = <<"Invalid JSON in", getMarketplaceJsonPath(m)>>
    ELSE /\ Returned
         /\ \A m \in Scanned : RecordNames(m) = CatalogNames(m)

\* C10 witness: a pass that returned the records of one marketplace while
\* the catalog of the other is missing
C10_Witness ==
  /\ Returned
  /\ \E m, o \in Scanned :
       disk.catalog[m].status = "missing" /\ RecordNames(o) # {}

PrimaryDocs == {"installedPlugins", "installCountsCache", "settings"}

MalformedPrimary == {doc \in PrimaryDocs : disk[doc].status = "malformed"}

\* The disk with a missing registry or count cache replaced by an empty one
WithEmptyForMissing ==
  [disk EXCEPT
     !.installedPlugins = IF @.status = "missing"
                          THEN OkDoc([plugins |-> Some(EmptyMap)]) ELSE @,
     !.installCountsCache = IF @.status = "missing"
                            THEN OkDoc([counts |-> Some(<< >>)]) ELSE @]

\* C11: a malformed installed registry, count cache or settings document
\* makes loadAllPlugins fail with an error that names a malformed one of
\* these documents and return no collection; a missing registry or count
\* cache gives the result an empty one gives, and is no error by itself.
C11_MalformedPrimaryIsFatal ==
  Ran =>
    /\ MalformedPrimary # {} =>
         /\ aggResult.kind = "throw"
         /\ \E doc \in MalformedPrimary :
              aggResult.error = <<"Invalid JSON in", PATHS[doc]>>
    /\ aggResult = loadAllPlugins(WithEmptyForMissing)
    /\ (/\ PrimaryReadable
        /\ \A m \in Scanned : disk.catalog[m].status # "malformed") => Returned

\* C11 witness: the registry is missing and passed over, the count cache is
\* malformed and the pass failed naming the count cache
C11_Witness ==
  /\ disk.installedPlugins.status = "missing"
  /\ disk.installCountsCache.status = "malformed"
  /\ aggResult.kind = "throw"
  /\ aggResult.error = <<"Invalid JSON in", PATHS.installCountsCache>>

\* C12: no two records of one returned collection have the same id.
C12_UniqueIds ==
  Returned =>
    \A i, j \in DOMAIN aggResult.value :
      aggResult.value[i].id = aggResult.value[j].id => i = j

\* The ids of the count cache on disk
CountedOnDisk ==
  IF disk.installCountsCache.status = "ok" /\ IsSome(disk.installCountsCache.value.counts)
  THEN LET cs == Get(disk.installCountsCache.value.counts)
       IN  {cs[i].plugin : i \in DOMAIN cs}
  ELSE {}

\* C13: every returned record is the record of a plugin that the catalog of
\* a scanned marketplace lists, so an id known only to the count cache, the
\* registry or the enabled-state map has no record; and a record whose id
\* has no count entry has installCount = 0.
C13_RecordsComeFromCatalogs ==
  Returned =>
    \A r \in Records :
      /\ r.marketplace \in Scanned
      /\ r.name \in CatalogNames(r.marketplace)
      /\ r.id = PluginId(r.name, r.marketplace)
      /\ r.id \notin CountedOnDisk => r.installCount = 0

\* C13 witness: the count cache knows an id no catalog lists, the registry
\* knows an id whose catalog is missing, and a returned record has no count
C13_Witness ==
  /\ Returned
  /\ PluginId(<<"q">>, M1) \in CountedOnDisk
  /\ M1 \in Scanned
  /\ HasEntry(IdYq) /\ disk.catalog[M2].status = "missing"
  /\ \E r \in Records : r.id \notin CountedOnDisk /\ r.installCount = 0

----------------------------------------------------------------------------
(* Properties of the enabled state (SpecToggle) *)

\* enabledPlugins[id] ?? false of a settings document as it is on a disk
EnabledIn(d, id) ==
  /\ d.settings.status = "ok"
  /\ IsSome(d.settings.value.enabledPlugins)
  /\ id \in DOMAIN Get(d.settings.value.enabledPlugins)
  /\ Get(d.settings.value.enabledPlugins)[id]

\* The keys that toggle
KeySpace == CharKey(" ")
KeyReturn == SpecialKey("return")

\* The navigating state with a plugin tab in front and a row selected
Navigating ==
  /\ phase = "running" /\ state.operation = "idle"
  /\ ~ConfirmPending(state) /\ ~isSearchMode

SelectionInstalled ==
  /\ Navigating /\ OnPluginTab(state)
  /\ IsSome(SelectedPlugin(state)) /\ Get(SelectedPlugin(state)).isInstalled

SelectionNotInstalled ==
  /\ Navigating /\ OnPluginTab(state)
  /\ IsSome(SelectedPlugin(state)) /\ ~Get(SelectedPlugin(state)).isInstalled

SettingsWritable == disk.settings.status = "ok" /\ ~disk.readOnly

\* C15: togglePlugin called twice on the same id flips the enabled value of
\* the settings document and then restores it; the toggle key pressed twice
\* on the selected installed plugin flips the record and the settings entry
\* and then restores both.
C15_ToggleTwiceRestores ==
  /\ \A id \in ToggleIds :
       LET once == togglePlugin(disk, id)
           twice == togglePlugin(once.disk, id)
       IN  once.kind = "value" =>
             /\ once.value = ~EnabledIn(disk, id)
             /\ EnabledIn(once.disk, id) = ~EnabledIn(disk, id)
             /\ twice.kind = "value" /\ twice.value = EnabledIn(disk, id)
             /\ EnabledIn(twice.disk, id) = EnabledIn(disk, id)
  /\ SelectionInstalled =>
       \A k1, k2 \in {KeySpace, KeyReturn} :
         LET id == Get(SelectedPlugin(state)).id
             once == useInput(W, k1)
             twice == useInput(once, k2)
         IN  /\ SettingsWritable =>
                  /\ EnabledIn(once.disk, id) = ~EnabledIn(disk, id)
                  /\ Get(SelectedPlugin(once.state)).isEnabled
                       = ~Get(SelectedPlugin(state)).isEnabled
             /\ EnabledIn(twice.disk, id) = EnabledIn(disk, id)
             /\ twice.state.plugins = state.plugins

\* C15 witness: togglePlugin has been called twice in a row on one id with
\* success, and the toggle key has reported a change in the session
C15_Witness ==
  /\ aggPrevious.kind = "value" /\ aggPrevious.call = "togglePlugin"
  /\ aggResult.kind = "value" /\ aggResult.call = "togglePlugin"
  /\ aggResult.pluginId = aggPrevious.pluginId
  /\ IsSome(state.message) /\ Get(state.message)[1] \in {"enabled", "disabled"}

\* Only the enabled-state entry of id differs between the settings documents
\* of two disks, and nothing but the settings document differs at all
OnlyEntryChanged(before, after, id) ==
  LET old == before.settings.value
      new == after.settings.value
      oldMap == IF IsSome(old.enabledPlugins) THEN Get(old.enabledPlugins) ELSE EmptyMap
      newMap == Get(new.enabledPlugins)
  IN  /\ [after EXCEPT !.settings = before.settings] = before
      /\ after.settings.status = "ok"
      /\ DOMAIN new = DOMAIN old
      /\ \A key \in DOMAIN old \ {"enabledPlugins"} : new[key] = old[key]
      /\ DOMAIN newMap = DOMAIN oldMap \cup {id}
      /\ \A other \in DOMAIN oldMap \ {id} : newMap[other] = oldMap[other]

\* C16: a successful setPluginEnabled(p, e), togglePlugin(p) or toggle key on
\* p changes the enabled-state entry of p and nothing else: every other
\* top-level key of the settings document, the entry of every other id and
\* every other document are as before.
C16_OnlyTheEntryChanges ==
  /\ \A id \in ToggleIds, enabled \in BOOLEAN :
       LET r == setPluginEnabled(disk, id, enabled)
       IN  r.kind = "value" =>
             OnlyEntryChanged(disk, r.disk, id) /\ EnabledIn(r.disk, id) = enabled
  /\ \A id \in ToggleIds :
       LET r == togglePlugin(disk, id)
       IN  r.kind = "value" => OnlyEntryChanged(disk, r.disk, id)
  /\ (SelectionInstalled /\ SettingsWritable) =>
       \A k \in {KeySpace, KeyReturn} :
         OnlyEntryChanged(disk, useInput(W, k).disk, Get(SelectedPlugin(state)).id)

\* C16 witness: setPluginEnabled succeeded on one id while the settings
\* document holds an entry for the other id
C16_Witness ==
  /\ aggResult.kind = "value" /\ aggResult.call = "setPluginEnabled"
  /\ disk.settings.status = "ok"
  /\ IsSome(disk.settings.value.enabledPlugins)
  /\ DOMAIN Get(disk.settings.value.enabledPlugins) = ToggleIds

\* C17: when the settings file cannot be written, the toggle key leaves the
\* records and every document as they are, sets an error message and leaves
\* the session running.
C17_FailedWriteChangesNothing ==
  (SelectionInstalled /\ disk.settings.status = "ok" /\ disk.readOnly) =>
    \A k \in {KeySpace, KeyReturn} :
      LET after == useInput(W, k)
      IN  /\ after.state.plugins = state.plugins
          /\ after.disk = disk
          /\ after.state.message
               = Some(<<"Error", <<"Failed to write", PATHS.settings>>>>)
          /\ after = [W EXCEPT !.state.message = after.state.message]

\* C17 witness: a session over a settings file that cannot be written shows
\* the error of a failed toggle
C17_Witness ==
  /\ phase = "running" /\ disk.readOnly /\ disk.settings.status = "ok"
  /\ state.message = Some(<<"Error", <<"Failed to write", PATHS.settings>>>>)

----------------------------------------------------------------------------
(* Properties of the interactive session (Spec) *)

Running == phase = "running"

KeyQ == CharKey("q")
KeyCtrlC == CtrlKey("c")

\* C1: at most one install or uninstall subprocess is outstanding at any
\* time, whatever keys arrive and however the subprocesses end.
C1_SingleFlight == Len(inflight) <= 1

\* C1 witness: an install is outstanding and a key arrived meanwhile
C1_Witness ==
  /\ Len(inflight) = 1 /\ inflight[1].action = "install"
  /\ gated

\* C2: while an operation is in flight every key event leaves the session
\* (reducer state, search mode, documents, subprocesses, running or exited)
\* exactly as it was.
C2_KeysDiscardedInFlight ==
  (Running /\ state.operation # "idle") => \A k \in Keys : useInput(W, k) = W

\* C2 witness: a key arrived while an uninstall was in flight
C2_Witness == gated /\ state.operation = "uninstalling"

\* C3: the confirmation dialog and an operation in flight never coexist.
C3_ConfirmExcludesOperation ==
  ~(state.confirmUninstall /\ state.operation # "idle")

\* C3 witness: the uninstall that the affirmative answer started is in
\* flight and the dialog is closed
C3_Witness ==
  /\ state.operation = "uninstalling" /\ ~state.confirmUninstall
  /\ inflight # << >>

\* The subprocesses a key event starts
Started(w) == SubSeq(w.inflight, Len(inflight) + 1, Len(w.inflight))

\* C4: the uninstall key on an installed plugin opens the confirmation for
\* that plugin and neither writes a document nor starts a subprocess; and a
\* key event starts `uninstall p` only if it is y or Y arriving while the
\* confirmation for p is pending.
C4_ConfirmBeforeUninstall ==
  Running =>
    /\ LET sel == SelectedPlugin(state)
           w == useInput(W, CharKey("u"))
       IN  (/\ state.operation = "idle" /\ ~ConfirmPending(state) /\ ~isSearchMode
            /\ OnPluginTab(state) /\ IsSome(sel) /\ Get(sel).isInstalled)
           => /\ w.state.confirmUninstall
              /\ w.state.operationPluginId = Some(Get(sel).id)
              /\ w.state.operation = "idle"
              /\ w.disk = disk
              /\ w.inflight = inflight
    /\ \A k \in Keys :
         LET w == useInput(W, k)
         IN  \A i \in DOMAIN Started(w) :
               Started(w)[i].action = "uninstall" =>
                 /\ k.input \in {"y", "Y"}
                 /\ state.confirmUninstall
                 /\ state.operationPluginId = Some(Started(w)[i].pluginId)

\* C4 witness: the confirmation for an installed plugin is pending and no
\* subprocess has been started
C4_Witness ==
  /\ state.confirmUninstall /\ state.operationPluginId = Some(IdSu)
  /\ inflight = << >>
  /\ HasEntry(IdSu)

Quits(k) == useInput(W, k).phase = "exited"

\* C5 as stated: the quit key terminates the session from every state in
\* which no operation is in flight, the pending confirmation included.
C5_QuitWheneverIdle ==
  (Running /\ state.operation = "idle") => Quits(KeyQ)

\* C5 amended: the quit key (q, Ctrl+C) terminates the session from every
\* state in which no operation is in flight, no uninstall confirmation is
\* pending and search entry is not active; while the confirmation is pending
\* or search entry is active it does not terminate the session.
C5_QuitWhenNavigating ==
  (Running /\ state.operation = "idle") =>
    IF ConfirmPending(state) \/ isSearchMode
    THEN ~Quits(KeyQ) /\ ~Quits(KeyCtrlC)
    ELSE Quits(KeyQ) /\ Quits(KeyCtrlC)

\* C5 witness: the session has been left through the quit key
C5_Witness == phase = "exited" /\ state.operation = "idle" /\ ~state.loading

\* C6: while an install or uninstall is in flight the quit key does not
\* terminate the session, and a session that has exited has no subprocess
\* outstanding.
C6_NoQuitInFlight ==
  /\ (Running /\ state.operation # "idle") => ~Quits(KeyQ) /\ ~Quits(KeyCtrlC)
  /\ phase = "exited" => inflight = << >>

\* C6 witness: the session exited after an install had settled
C6_Witness ==
  /\ phase = "exited"
  /\ \E i \in DOMAIN state.plugins :
       state.plugins[i].installedAt = Some(NewEntry.installedAt)

\* C7: the selection stays within the list of the active tab.
C7_SelectionInRange ==
  /\ 0 <= state.selectedIndex
  /\ state.selectedIndex <= Max(0, Len(getItemsForTab(state)) - 1)

\* The warnings of the handler (the messages that start with the warning sign)
AlreadyInstalledWarning == Some(<<"Plugin is already installed">>)
NotInstalledWarning == Some(<<"Plugin is not installed">>)

\* C18 as stated: the toggle key on a selected plugin that is not installed
\* writes nothing, changes no record and sets a warning message.
C18_ToggleNotInstalledWarns ==
  SelectionNotInstalled =>
    \A k \in {KeySpace, KeyReturn} :
      LET after == useInput(W, k)
      IN  /\ after.disk = disk
          /\ after.state.plugins = state.plugins
          /\ after.state.message \in {AlreadyInstalledWarning, NotInstalledWarning}

\* C19: the install key on a selected installed plugin, and the uninstall
\* key on a selected plugin that is not installed, set the warning message
\* and change nothing else: no operation, no confirmation, no subprocess, no
\* write, and the same plugins, selection and tab.
C19_WrongKeyOnlyWarns ==
  /\ SelectionInstalled =>
       useInput(W, CharKey("i")) = [W EXCEPT !.state.message = AlreadyInstalledWarning]
  /\ SelectionNotInstalled =>
       useInput(W, CharKey("u")) = [W EXCEPT !.state.message = NotInstalledWarning]

\* C19 witness: the session shows the warning of an install key pressed on
\* an installed plugin, with nothing in flight and no dialog
C19_Witness ==
  /\ Running /\ state.message = AlreadyInstalledWarning
  /\ SelectionInstalled /\ inflight = << >>

\* What the session is after the subprocess in flight has ended with outcome
Settled(outcome) == SettleEffect(W, 1, outcome)

----------------------------------------------------------------------------
(* Properties of the session with damaged documents (SpecFaults) *)

\* The message of w reports a result or an error
ReportsOutcome(w) ==
  /\ IsSome(w.state.message)
  /\ Get(w.state.message)[1] \in {"ok", "failed", "Error"}

\* The session w is running in the idle navigating state
IdleNavigating(w) ==
  /\ w.phase = "running" /\ w.state.operation = "idle"
  /\ ~ConfirmPending(w.state) /\ w.state.error = None

\* C21: after startup every error (a document that is not found or is
\* malformed, a failed write, a failed action, and an error raised while
\* re-aggregating after a successful install or uninstall) ends in a status
\* message, with the session still running in the idle navigating state.
C21_ErrorsBecomeMessages ==
  /\ phase # "crashed"
  /\ (Running /\ inflight # << >>) =>
       \A outcome \in Outcomes :
         IdleNavigating(Settled(outcome)) /\ ReportsOutcome(Settled(outcome))
  /\ SelectionInstalled =>
       \A k \in {KeySpace, KeyReturn} :
         /\ IdleNavigating(useInput(W, k))
         /\ togglePlugin(disk, Get(SelectedPlugin(state)).id).kind = "throw"
              => ReportsOutcome(useInput(W, k))

----------------------------------------------------------------------------
(* Properties of the session whose start failed (SpecStartup) *)

\* The error screen is shown (lines 541-549)
StartupFailed == Running /\ state.error # None

IsQuitKey(k) == k.input = "q" \/ (k.ctrl /\ k.input = "c")

\* C22: after a document read failure at startup the session is in a
\* terminal error state that offers only the quit affordance: the quit key
\* quits, no other key changes the interaction state, and no toggle,
\* install or uninstall is performed.
C22_ErrorStateIsTerminal ==
  StartupFailed =>
    \A k \in Keys :
      /\ IsQuitKey(k) => Quits(k)
      /\ ~IsQuitKey(k) => useInput(W, k) = W
      /\ useInput(W, k).disk = disk
      /\ useInput(W, k).inflight = << >>

----------------------------------------------------------------------------
(* Properties of the navigation keys (SpecNavigation) *)

SwitchKeys ==
  {SpecialKey("leftArrow"), SpecialKey("rightArrow"), SpecialKey("tab")}

\* The tab next to tab on the side the key points to; the tab bar wraps
Neighbour(tab, k) ==
  IF k.name = "leftArrow"
  THEN CASE tab = "discover" -> "errors"
         [] tab = "installed" -> "discover"
         [] tab = "marketplaces" -> "installed"
         [] tab = "errors" -> "marketplaces"
  ELSE CASE tab = "discover" -> "installed"
         [] tab = "installed" -> "marketplaces"
         [] tab = "marketplaces" -> "errors"
         [] tab = "errors" -> "discover"

\* C23: in the navigating state a view-switch key (left arrow, right arrow,
\* Tab) makes the neighbouring tab the active one, sets selectedIndex to 0,
\* clears searchQuery and the message, and changes nothing else: plugins,
\* marketplaces, sort key and direction, operation and confirmation state,
\* the documents and the subprocesses are as before.
C23_SwitchTabFrame ==
  Navigating =>
    \A k \in SwitchKeys :
      useInput(W, k) =
        [W EXCEPT !.state.activeTab = Neighbour(state.activeTab, k),
                  !.state.selectedIndex = 0,
                  !.state.searchQuery = << >>,
                  !.state.message = None]

\* C23 witness: a tab switch is about to discard a query, a message and a
\* selection below the first row
C23_Witness ==
  /\ Navigating /\ state.searchQuery # << >> /\ state.message # None
  /\ state.selectedIndex > 0 /\ state.activeTab = "discover"

\* C29: while the uninstall confirmation is pending, n, N and Escape close
\* the dialog, clear operationPluginId and set the message 'Uninstall
\* cancelled' and change nothing else (no subprocess, no write; plugins,
\* selection, tab, query and sort as before); every key other than these
\* and y, Y changes nothing at all.
C29_ConfirmAcceptsThreeAnswers ==
  (Running /\ state.operation = "idle" /\ ConfirmPending(state)) =>
    \A k \in Keys :
      IF k.input \in {"n", "N"} \/ k.name = "escape"
      THEN useInput(W, k) =
             [W EXCEPT !.state.confirmUninstall = FALSE,
                       !.state.operationPluginId = None,
                       !.state.message = Some(<<"Uninstall cancelled">>)]
      ELSE k.input \notin {"y", "Y"} => useInput(W, k) = W

\* C29 witness: the confirmation for su@m1 is pending with the second tab
\* in front
C29_Witness ==
  /\ Running /\ state.operation = "idle" /\ ConfirmPending(state)
  /\ state.operationPluginId = Some(IdSu)
  /\ state.activeTab = "installed"

MoveUpKeys == {SpecialKey("upArrow"), CtrlKey("p")}
MoveDownKeys == {SpecialKey("downArrow"), CtrlKey("n")}

\* C30: in the navigating state a selection-move key (up arrow, down arrow,
\* Ctrl+P, Ctrl+N) changes selectedIndex by at most one and leaves it
\* between 0 and the last index of the list of the active tab; up at 0 and
\* down at the last index change nothing; over an empty list the selection
\* stays at 0.
C30_SelectionMoveInRange ==
  Navigating =>
    \A k \in MoveUpKeys \cup MoveDownKeys :
      LET n == Len(getItemsForTab(state))
          old == state.selectedIndex
          new == useInput(W, k).state.selectedIndex
      IN  /\ new >= 0
          /\ new - old \in {-1, 0, 1}
          /\ n > 0 => new <= n - 1
          /\ n = 0 => new = 0 /\ useInput(W, k) = W
          /\ (k \in MoveUpKeys /\ old = 0) => new = 0
          /\ (k \in MoveDownKeys /\ old = n - 1) => new = old

\* C30 witness: the last row of a list of two is selected, where the down
\* key must not move
C30_Witness ==
  /\ Navigating /\ Len(getItemsForTab(state)) = 2 /\ state.selectedIndex = 1

----------------------------------------------------------------------------
(* Properties of the query layer (SpecQuery) *)

\* Two characters are the same letter, whatever their case
SameLetter(a, b) ==
  \/ a = b
  \/ {a, b} \in {{"s", "S"}, {"y", "Y"}, {"n", "N"}, {"u", "U"}}

\* text contains query as a substring, case ignored
ContainsIgnoringCase(text, query) ==
  \E i \in 0..(Len(text) - Len(query)) :
    \A j \in 1..Len(query) : SameLetter(text[i + j], query[j])

\* One of the five fields searched contains the query
FieldMatches(p, query) ==
  \/ ContainsIgnoringCase(p.name, query)
  \/ ContainsIgnoringCase(p.description, query)
  \/ ContainsIgnoringCase(p.marketplace, query)
  \/ IsSome(p.category) /\ ContainsIgnoringCase(Get(p.category), query)
  \/ IsSome(p.tags)
       /\ \E t \in DOMAIN Get(p.tags) : ContainsIgnoringCase(Get(p.tags)[t], query)

\* The strictly increasing maps from the positions of out to those of in
Embeddings(out, in) ==
  {f \in [DOMAIN out -> DOMAIN in] :
     \A i, j \in DOMAIN out : i < j => f[i] < f[j]}

\* C24: searchPlugins(query, records) returns exactly the records of the
\* input, in input order, of which the name, the description, the
\* marketplace id, the category or one of the tags contains the query, case
\* ignored; for the empty query it returns the input as it is.
C24_SearchSelectsMatches ==
  aggResult.kind = "searchPlugins" =>
    LET records == aggPrevious.records
        query == aggPrevious.query
        out == aggResult.value
    IN  /\ \E f \in Embeddings(out, records) :
             /\ \A i \in DOMAIN out : out[i] = records[f[i]]
             /\ \A j \in DOMAIN records :
                  FieldMatches(records[j], query)
                    <=> \E i \in DOMAIN out : f[i] = j
        /\ query = << >> => out = records

\* C24 witness: a query in upper case has selected the first and the last
\* of three records and dropped the one between them
C24_Witness ==
  /\ aggResult.kind = "searchPlugins"
  /\ aggPrevious.query = <<"U">>
  /\ Len(aggPrevious.records) = 3 /\ Len(aggResult.value) = 2
  /\ aggResult.value = <<aggPrevious.records[1], aggPrevious.records[3]>>
  /\ aggPrevious.records[1] # aggPrevious.records[3]

\* The sort key of a record: the install count, the name, or the
\* installation time (0 for a record that has none)
SortKey(p, sortBy) ==
  CASE sortBy = "installs" -> p.installCount
    [] sortBy = "name" -> p.name
    [] sortBy = "date" ->
         IF IsSome(p.installedAt) THEN DateGetTime(Get(p.installedAt)) ELSE 0

\* Key x comes strictly before key y in ascending order
KeyBefore(x, y, sortBy) ==
  IF sortBy = "name" THEN localeCompare(x, y) < 0 ELSE x < y

\* Record a may not come after record b in the given direction
InOrder(a, b, sortBy, order) ==
  IF order = "asc"
  THEN ~KeyBefore(SortKey(b, sortBy), SortKey(a, sortBy), sortBy)
  ELSE ~KeyBefore(SortKey(a, sortBy), SortKey(b, sortBy), sortBy)

\* Records a and b are equal under the comparison key
SameKey(a, b, sortBy) ==
  /\ ~KeyBefore(SortKey(a, sortBy), SortKey(b, sortBy), sortBy)
  /\ ~KeyBefore(SortKey(b, sortBy), SortKey(a, sortBy), sortBy)

Rearrangements(n) ==
  {f \in [1..n -> 1..n] : \A i, j \in 1..n : i # j => f[i] # f[j]}

\* C25: sortPlugins returns a permutation of its input that is ordered by
\* the chosen key in the chosen direction and is stable (records equal
\* under the key keep their input order, ascending and descending alike),
\* and it leaves the array it was given as it was.
C25_SortIsStablePermutation ==
  aggResult.kind = "sortPlugins" =>
    LET records == aggPrevious.records
        sortBy == aggPrevious.sortBy
        order == aggPrevious.order
        out == aggResult.value
    IN  /\ Len(out) = Len(records)
        /\ \E f \in Rearrangements(Len(records)) :
             /\ \A i \in DOMAIN out : out[i] = records[f[i]]
             /\ \A i, j \in DOMAIN out :
                  i < j =>
                    /\ InOrder(out[i], out[j], sortBy, order)
                    /\ SameKey(out[i], out[j], sortBy) => f[i] < f[j]
        /\ aggResult.plugins = records

\* C25 witness: a descending sort by install count has moved the last
\* record to the front and kept two records with equal counts, which differ,
\* in their input order
C25_Witness ==
  /\ aggResult.kind = "sortPlugins"
  /\ aggPrevious.sortBy = "installs" /\ aggPrevious.order = "desc"
  /\ Len(aggPrevious.records) = 3
  /\ aggResult.value = <<aggPrevious.records[3], aggPrevious.records[1],
                         aggPrevious.records[2]>>
  /\ aggPrevious.records[1] # aggPrevious.records[2]
  /\ aggPrevious.records[1].installCount = aggPrevious.records[2].installCount

----------------------------------------------------------------------------
(* Properties of writeJsonFile (SpecWrite) *)

\* What a reader finds at filePath is the document that was there when the
\* call began, or the document being written, whole
FinalIsWhole ==
  \/ disk.final = aggPrevious.previous
  \/ aggPrevious.data # Unserializable /\ disk.final = OkDoc(aggPrevious.data)

\* The call has thrown: filePath holds the previous document and the error
\* thrown carries the message of the error caught
ThrownKeepsPrevious ==
  phase = "thrown" =>
    /\ disk.final = aggPrevious.previous
    /\ aggResult.kind = "throw"
    /\ aggResult.error[3] = aggResult.caught

\* C26 as stated: filePath holds the previous or the new document at every
\* step, and whenever the write of the temporary file or the rename fails
\* the previous document is kept, an error carrying the cause is thrown and
\* the temporary file is gone.
C26_AtomicAndTempRemoved ==
  /\ FinalIsWhole
  /\ ThrownKeepsPrevious
  /\ phase = "thrown" => disk.temp = MissingDoc

\* C26: filePath holds the previous or the new document at every step, and
\* whenever the write of the temporary file or the rename fails the
\* previous document is kept and an error carrying the cause is thrown; the
\* temporary file is gone unless unlinking it failed, in which case it is
\* left where it is.
C26_AtomicAndTempRemovedIfPossible ==
  /\ FinalIsWhole
  /\ ThrownKeepsPrevious
  /\ (phase = "thrown" /\ aggResult.unlinked) => disk.temp = MissingDoc
  /\ phase = "returned" => disk = [final |-> OkDoc(aggPrevious.data), temp |-> MissingDoc]

\* C26 witness: the rename has failed over an existing document, the
\* temporary file has been removed and the error names the cause
C26_Witness ==
  /\ phase = "thrown" /\ aggResult.caught = "EPERM" /\ aggResult.unlinked
  /\ disk.final = aggPrevious.previous /\ disk.final # MissingDoc
  /\ disk.final # OkDoc(aggPrevious.data)

----------------------------------------------------------------------------
(* Properties of executePluginAction (SpecExecutor) *)

\* The promise is settled as soon as the child has errored or closed, with
\* the value of the first of the two events, and is never rejected (the
\* executor takes no reject and none of its statements throws)
ResolvesOnce ==
  /\ aggResult.kind \in {"pending", "resolved"}
  /\ aggResult.kind = "resolved" <=> phase \in {"errored", "closed"}
  /\ (aggResult.kind = "resolved" /\ aggPrevious.kind = "error") =>
       aggResult.value = [success |-> FALSE,
                          message |-> <<"Failed to execute claude command">>,
                          error |-> Some(aggPrevious.message)]
  /\ (aggResult.kind = "resolved" /\ aggPrevious.kind = "close") =>
       (aggResult.value.success <=> aggPrevious.code = Some(0))

\* C27: the promise of the executor always resolves, never rejects and
\* resolves once: with success iff the child exits with status 0; otherwise
\* with a failure whose diagnostic is what stderr delivered, else what
\* stdout delivered, else the numeric exit code; a child that cannot be
\* spawned gives a failure with the text of the spawn error.
C27_ResolvesWithDiagnostic ==
  /\ ResolvesOnce
  /\ (aggResult.kind = "resolved" /\ aggPrevious.kind = "close"
        /\ ~aggResult.value.success) =>
       aggResult.value.error =
         Some(IF inflight[1].stderr # << >> THEN inflight[1].stderr
              ELSE IF inflight[1].stdout # << >> THEN inflight[1].stdout
              ELSE <<"Exit code", aggPrevious.code>>)
         /\ (inflight[1].stderr = << >> /\ inflight[1].stdout = << >>
               => IsSome(aggPrevious.code))

----------------------------------------------------------------------------
(* Properties of loadMarketplaces (SpecMarketplaces) *)

\* The ids the registry lists (none when it is absent)
KnownIds ==
  IF disk.knownMarketplaces.status = "ok" THEN disk.knownMarketplaces.value
  ELSE << >>

\* The number of plugins the catalog of m lists, 0 when there is no catalog
\* or no list in it
CatalogCount(m) ==
  IF disk.catalog[m].status = "ok" /\ IsSome(disk.catalog[m].value.plugins)
  THEN Len(Get(disk.catalog[m].value.plugins))
  ELSE 0

\* The call returned one record per listed id, each with the count of its
\* catalog, ordered by count non-increasing
OneRecordPerEntry ==
  /\ aggResult.kind = "value"
  /\ Len(aggResult.value) = Len(KnownIds)
  /\ \A i \in DOMAIN KnownIds :
       \E j \in DOMAIN aggResult.value :
         /\ aggResult.value[j].id = KnownIds[i]
         /\ aggResult.value[j].pluginCount = CatalogCount(KnownIds[i])
  /\ \A i, j \in DOMAIN aggResult.value :
       i < j => aggResult.value[i].pluginCount >= aggResult.value[j].pluginCount

----------------------------------------------------------------------------
(* Properties of search entry and of the sort keys (SpecNavigation) *)

KeyEscape == SpecialKey("escape")
KeySortCycle == CharKey("s")
KeySortOrder == CharKey("S")

\* The query without its last character
WithoutLast(q) == [i \in 1..(Len(q) - 1) |-> q[i]]

C32_EscapeClearsQuery ==
  Navigating =>
    useInput(W, KeyEscape) =
      IF state.searchQuery # << >>
      THEN [W EXCEPT !.state.searchQuery = << >>, !.state.selectedIndex = 0]
      ELSE W

\* C32 witness: a query is the active filter, search entry has been left
\* and the second row is selected
C32_Witness ==
  /\ Navigating /\ state.searchQuery # << >> /\ state.selectedIndex = 1

\* The key after sortBy in the cycle installs -> name -> date -> installs
CycleAfter(sortBy) ==
  CASE sortBy = "installs" -> "name"
    [] sortBy = "name" -> "date"
    [] sortBy = "date" -> "installs"

Flipped(sortOrder) == IF sortOrder = "asc" THEN "desc" ELSE "asc"

\* What the two sort keys do when they act
SortKeysAct ==
  /\ useInput(W, KeySortCycle) =
       [W EXCEPT !.state.sortBy = CycleAfter(state.sortBy),
                 !.state.selectedIndex = 0]
  /\ useInput(W, KeySortOrder) =
       [W EXCEPT !.state.sortOrder = Flipped(state.sortOrder),
                 !.state.selectedIndex = 0]
  /\ useInput(useInput(useInput(W, KeySortCycle), KeySortCycle),
              KeySortCycle).state.sortBy = state.sortBy

\* C33 as stated: in the navigating state the sort-cycle key advances sortBy
\* through installs -> name -> date -> installs (three presses come back to
\* the start) and keeps sortOrder, the sort-order key flips sortOrder and
\* keeps sortBy, and each sets selectedIndex to 0, whichever tab is in
\* front.
C33_SortKeysOnEveryTab == Navigating => SortKeysAct

\* C33: in the navigating state with the Discover tab in front the
\* sort-cycle key advances sortBy through installs -> name -> date ->
\* installs (three presses come back to the start) and keeps sortOrder, the
\* sort-order key flips sortOrder and keeps sortBy, and each sets
\* selectedIndex to 0 and changes nothing else; with another tab in front
\* the two keys change nothing.
C33_SortKeysOnDiscover ==
  Navigating =>
    IF state.activeTab = "discover" THEN SortKeysAct
    ELSE useInput(W, KeySortCycle) = W /\ useInput(W, KeySortOrder) = W

\* C33 witness: on the Discover tab the sort is by date ascending and the
\* second row is selected
C33_Witness ==
  /\ Navigating /\ state.activeTab = "discover"
  /\ state.sortBy = "date" /\ state.sortOrder = "asc" /\ state.selectedIndex = 1

----------------------------------------------------------------------------
(* Properties of the plugin records held by the session (SpecFaults) *)

\* A record that is not installed carries no installation metadata
NoInstallFieldsUnlessInstalled(r) ==
  ~r.isInstalled =>
    r.installedAt = None /\ r.lastUpdated = None /\ r.gitCommitSha = None

\* C34: every plugin record with isInstalled = false has installedAt,
\* lastUpdated and gitCommitSha absent: in the result of loadAllPlugins over
\* the documents as they are, and in the list the session holds, after
\* loads, toggle patches, installs and uninstalls.
C34_NotInstalledHasNoInstallFields ==
  /\ \A i \in DOMAIN state.plugins :
       NoInstallFieldsUnlessInstalled(state.plugins[i])
  /\ loadAllPlugins(disk).kind = "value" =>
       \A i \in DOMAIN loadAllPlugins(disk).value :
         NoInstallFieldsUnlessInstalled(loadAllPlugins(disk).value[i])

\* C34 witness: after a toggle patch the session holds an installed record
\* with its metadata next to a record that is not installed
C34_Witness ==
  /\ Running /\ IsSome(state.message)
  /\ Get(state.message)[1] \in {"enabled", "disabled"}
  /\ \E i, j \in DOMAIN state.plugins :
       /\ ~state.plugins[i].isInstalled
       /\ state.plugins[j].isInstalled /\ IsSome(state.plugins[j].installedAt)

----------------------------------------------------------------------------
(* Properties of the installation entry the aggregation reads (SpecAgg) *)

\* The records of ids for which the registry lists several entries
RecordsOfSeveral == {r \in Records : HasEntry(r.id) /\ Len(RegistryOnDisk[r.id]) > 1}

FirstEntry(id) == RegistryOnDisk[id][1]

\* The versions the catalog of the record's marketplace gives for its name
\* ('unknown' where it gives none)
CatalogVersions(r) ==
  LET doc == disk.catalog[r.marketplace]
      ps == IF doc.status = "ok" /\ IsSome(doc.value.plugins)
            THEN Get(doc.value.plugins) ELSE << >>
  IN  {OrStr(ps[i].version, <<"unknown">>) : i \in {j \in DOMAIN ps : ps[j].name = r.name}}

\* installedAt, lastUpdated, isLocal and gitCommitSha are those of the first
\* listed entry
StampsOfFirst(r) ==
  /\ r.installedAt = Some(FirstEntry(r.id).installedAt)
  /\ r.lastUpdated = Some(FirstEntry(r.id).lastUpdated)
  /\ r.isLocal = Some(FirstEntry(r.id).isLocal)
  /\ r.gitCommitSha = Some(FirstEntry(r.id).gitCommitSha)

\* C35 as stated: when the registry lists several installation entries for
\* a plugin id, the record's version, installedAt, lastUpdated, isLocal and
\* gitCommitSha are all those of the first listed entry, whatever the later
\* entries hold.
C35_AllFromFirstEntry ==
  \A r \in RecordsOfSeveral :
    StampsOfFirst(r) /\ r.version = FirstEntry(r.id).version

\* C35 amended: when the registry lists several installation entries for a
\* plugin id, the record's installedAt, lastUpdated, isLocal and gitCommitSha
\* are those of the first listed entry, and its version is the first
\* entry's version when that is a non-empty string and the catalog's version
\* (or 'unknown') otherwise; no later entry is read.
C35_FirstEntryWithVersionFallback ==
  \A r \in RecordsOfSeveral :
    /\ StampsOfFirst(r)
    /\ IF FirstEntry(r.id).version # << >>
       THEN r.version = FirstEntry(r.id).version
       ELSE r.version \in CatalogVersions(r)

\* C35 witness: a returned record whose id lists two entries that differ in
\* every field the record takes from the registry
C35_Witness ==
  \E r \in RecordsOfSeveral :
    LET reg == RegistryOnDisk[r.id]
    IN  /\ reg[1].version # reg[2].version
        /\ reg[1].installedAt # reg[2].installedAt
        /\ reg[1].lastUpdated # reg[2].lastUpdated
        /\ reg[1].isLocal # reg[2].isLocal
        /\ reg[1].gitCommitSha # reg[2].gitCommitSha
        /\ reg[1].version # << >>

----------------------------------------------------------------------------
(* Properties of operationPluginId (SpecFaults) and of the id handed to    *)
(* the executor (SpecNavigation)                                           *)

\* C36: in every reachable state operationPluginId is non-null exactly when
\* an operation is in progress (operation is not 'idle') or the uninstall
\* confirmation is open (confirmUninstall is true).
C36_OperationIdIffBusy ==
  IsSome(state.operationPluginId)
    <=> (state.operation # "idle" \/ state.confirmUninstall)

\* C36 witness: the dialog has been answered with yes: it is closed, the
\* uninstall is in progress and the id is held
C36_Witness ==
  /\ state.operation = "uninstalling" /\ ~state.confirmUninstall
  /\ IsSome(state.operationPluginId)

KeyInstall == CharKey("i")
KeyUninstall == CharKey("u")
KeyYes == CharKey("y")

\* C37: the install key hands the executor the id of the row selected when
\* it is pressed, and nothing else; the uninstall key stores the id of the
\* row selected when it is pressed; while the dialog is open no key changes
\* the stored id; and the affirmative answer hands the executor the stored
\* id, and nothing else.
C37_ExecutorGetsSelectedId ==
  /\ Navigating =>
       /\ Started(useInput(W, KeyInstall)) # << >> =>
            /\ IsSome(SelectedPlugin(state))
            /\ Started(useInput(W, KeyInstall)) =
                 <<[action |-> "install", pluginId |-> Get(SelectedPlugin(state)).id]>>
       /\ useInput(W, KeyUninstall).state.confirmUninstall =>
            /\ IsSome(SelectedPlugin(state))
            /\ useInput(W, KeyUninstall).state.operationPluginId =
                 Some(Get(SelectedPlugin(state)).id)
            /\ Started(useInput(W, KeyUninstall)) = << >>
  /\ (Running /\ state.confirmUninstall) =>
       /\ \A k \in Keys :
            /\ useInput(W, k).state.confirmUninstall =>
                 useInput(W, k).state.operationPluginId = state.operationPluginId
            /\ Started(useInput(W, k)) # << >> =>
                 /\ k.input \in {"y", "Y"}
                 /\ Started(useInput(W, k)) =
                      <<[action |-> "uninstall",
                         pluginId |-> Get(state.operationPluginId)]>>
       /\ Started(useInput(W, KeyYes)) # << >>

\* C37 witness: the install of the second row is in flight
C37_Witness ==
  /\ Running /\ state.selectedIndex = 1 /\ Len(inflight) = 1
  /\ inflight[1].action = "install"

----------------------------------------------------------------------------
(* Properties of the confinement of search entry (SpecNavigation) *)

\* The session apart from the query, the selection and the search flag
OutsideSearch(w) ==
  [state |-> [w.state EXCEPT !.searchQuery = << >>, !.selectedIndex = 0],
   disk |-> w.disk, inflight |-> w.inflight, phase |-> w.phase]

CommandChars == {"i", "u", "s", "S", "q", " ", "/"}

IgnoredInSearch ==
  {SpecialKey(n) : n \in {"upArrow", "downArrow", "leftArrow", "rightArrow", "tab"}}

\* C38: in search entry no key installs, opens the uninstall confirmation,
\* writes a toggle, changes the sort, switches the tab or quits: every key
\* leaves the documents, the requests in flight, the process and every
\* field of the state other than searchQuery and selectedIndex as they are;
\* the characters i, u, s, S, q, space and / are appended to searchQuery;
\* the arrow keys and Tab change nothing at all.
C38_SearchEntryCapturesKeys ==
  (Running /\ isSearchMode) =>
    /\ \A k \in Keys : OutsideSearch(useInput(W, k)) = OutsideSearch(W)
    /\ \A c \in CommandChars :
         /\ useInput(W, CharKey(c)).state.searchQuery = state.searchQuery \o <<c>>
         /\ useInput(W, CharKey(c)).isSearchMode
    /\ \A k \in IgnoredInSearch : useInput(W, k) = W

\* C38 witness: the install key was typed in search entry and is the query,
\* while a row that could be installed is selected
C38_Witness ==
  /\ Running /\ isSearchMode /\ state.searchQuery = <<"i">>
  /\ IsSome(SelectedPlugin(state)) /\ ~Get(SelectedPlugin(state)).isInstalled

\* C40: in every reachable state a non-empty searchQuery or active search
\* entry implies that the Discover tab is in front.
C40_SearchConfinedToDiscover ==
  (state.searchQuery # << >> \/ isSearchMode) => state.activeTab = "discover"

\* C40 witness: the session has been on another tab and is back on
\* Discover, in search entry with a query
C40_Witness ==
  /\ Running /\ isSearchMode /\ state.searchQuery # << >>
  /\ state.activeTab = "discover" /\ state.sortBy = "name"

----------------------------------------------------------------------------
(* The session over every shape of the settings document, with the toggle, *)
(* install and uninstall keys and no writer other than the session and the *)
(* program it runs                                                         *)

EnabledKeys ==
  {CharKey(" "), CharKey("i"), CharKey("u"), CharKey("y"),
   SpecialKey("downArrow"), SpecialKey("tab")}

InitEnabled ==
  /\ disk \in ToggleDisks
  /\ state = initialState
  /\ isSearchMode = FALSE
  /\ phase = "init"
  /\ inflight = << >>
  /\ gated = FALSE
  /\ aggResult = [kind |-> "none"]
  /\ aggPrevious = [kind |-> "none"]

\* One of these keys reaches the useInput handler
EnabledKeyPress ==
  /\ phase = "running"
  /\ \E k \in EnabledKeys : Install(useInput(W, k))
  /\ gated' = OperationGate(state)
  /\ UNCHANGED <<aggResult, aggPrevious>>

NextEnabled == Mount \/ EnabledKeyPress \/ Settle

SpecEnabled == InitEnabled /\ [][NextEnabled]_vars

\* C39: while nothing but the session writes the settings document, the
\* isEnabled flag of every installed plugin record the session holds is the
\* value the enabled-state map of the settings document gives for its id
\* (false when it gives none), after any sequence of keys.
C39_MemoryMatchesSettings ==
  \A i \in DOMAIN state.plugins :
    state.plugins[i].isInstalled =>
      (state.plugins[i].isEnabled <=> MappedTrue(state.plugins[i].id))

\* C39 witness: a toggle has disabled an installed plugin: the record and
\* the settings document both say disabled, and the document still lists
\* the id
C39_Witness ==
  /\ Running /\ IsSome(state.message) /\ Get(state.message)[1] = "disabled"
  /\ \E i \in DOMAIN state.plugins :
       /\ state.plugins[i].isInstalled /\ ~state.plugins[i].isEnabled
       /\ state.plugins[i].id \in DOMAIN EnabledOnDisk

=============================================================================
